---- MODULE Spec2Model ----
(***************************************************************************)
(* State-machine model of the caddy-ai-router core: model-to-provider      *)
(* resolution (explicit prefix, per-model default, correction cache, live  *)
(* fuzzy search), credential lookup, hand-off to the reverse proxy, and    *)
(* the aggregated GET /models endpoint.                                    *)
(*                                                                         *)
(* Strings are sequences of one-character strings, so that splitting on    *)
(* "/", lower-casing, substring search and edit distance are computed and  *)
(* not assumed.  The empty sequence is Go's empty string "".               *)
(*                                                                         *)
(* Upstream catalogs are a fixed snapshot per behaviour; the outcome of a  *)
(* credential lookup and of the proxied upstream call is chosen per call.  *)
(* The credential provider in use is an input of each lookup: what the     *)
(* default environment provider can return, an injected one can too, so    *)
(* the handler sees the same results as with one provider per request.     *)
(* Catalog entries are well-formed here (their id is a string, possibly    *)
(* the empty string).                                                      *)
(***************************************************************************)
EXTENDS Naturals, Integers, Sequences, FiniteSets, TLC

\* ------------------------------------------------------------------ bounds
MaxLen == 3          \* longest client-supplied model string
MaxRequests == 2     \* chat requests served in one behaviour
MaxModelsCalls == 2  \* GET /models calls served in one behaviour
MaxMsgs == 3         \* longest messages list of a chat body
MaxBody == 4         \* longest upstream response body, in tokens

\* ----------------------------------------------------------------- strings
Chars == {"a", "A", "/"}

Strs(n) == UNION {[1..k -> Chars] : k \in 0..n}

Empty == << >>

\* strings.ToLower on the ASCII letters of the alphabet
ToLowerChar(c) == IF c = "A" THEN "a" ELSE IF c = "B" THEN "b" ELSE c

ToLower(s) == [i \in 1..Len(s) |-> ToLowerChar(s[i])]

\* strings.SplitN(s, "/", 2): one part when s has no "/", otherwise the text
\* before the first "/" and the whole text after it.
SplitN2(s) ==
    LET slashes == {i \in 1..Len(s) : s[i] = "/"}
    IN  IF slashes = {} THEN <<s>>
        ELSE LET k == CHOOSE i \in slashes : \A j \in slashes : i <= j
             IN  <<SubSeq(s, 1, k - 1), SubSeq(s, k + 1, Len(s))>>

\* strings.Contains(s, sub)
Contains(s, sub) ==
    \E k \in 0..(Len(s) - Len(sub)) : SubSeq(s, k + 1, k + Len(sub)) = sub

Min2(x, y) == IF x <= y THEN x ELSE y

\* edlib.DamerauLevenshteinDistance: the unrestricted Damerau-Levenshtein
\* distance (insert, delete, substitute, transpose adjacent), computed by
\* the Lowrance-Wagner recurrence over the (Len(s)+1) x (Len(t)+1) matrix,
\* filled cell by cell in row-major order.
RECURSIVE DLFill(_, _, _)
DLFill(s, t, n) ==
    LET w    == Len(t) + 1
        i    == n \div w
        j    == n % w
        prev == IF n = 0 THEN << >> ELSE DLFill(s, t, n - 1)
        at(x, y) == prev[x * w + y + 1]
        inf  == Len(s) + Len(t)
        cost == IF s[i] = t[j] THEN 0 ELSE 1
        ks   == {k \in 1..(i - 1) : s[k] = t[j]}
        ls   == {l \in 1..(j - 1) : t[l] = s[i]}
        i1   == IF ks = {} THEN 0 ELSE CHOOSE k \in ks : \A k2 \in ks : k2 <= k
        j1   == IF ls = {} THEN 0 ELSE CHOOSE l \in ls : \A l2 \in ls : l2 <= l
        trans == IF i1 = 0 \/ j1 = 0 THEN inf
                 ELSE at(i1 - 1, j1 - 1) + (i - i1 - 1) + 1 + (j - j1 - 1)
        cell == IF i = 0 THEN j
                ELSE IF j = 0 THEN i
                ELSE Min2(Min2(at(i, j - 1) + 1, at(i - 1, j) + 1),
                          Min2(at(i - 1, j - 1) + cost, trans))
    IN  Append(prev, cell)

DamerauLevenshteinDistance(s, t) ==
    IF Len(s) = 0 THEN Len(t)
    ELSE IF Len(t) = 0 THEN Len(s)
    ELSE IF s = t THEN 0
    ELSE DLFill(s, t, (Len(s) + 1) * (Len(t) + 1) - 1)[(Len(s) + 1) * (Len(t) + 1)]

\* --------------------------------------------------------- configuration
pA == <<"a">>
pB == <<"b">>
PNames == {pA, pB}

\* orders of a set: every provider exactly once
Orders(S) == {o \in [1..Cardinality(S) -> S] : \A i, j \in DOMAIN o : i # j => o[i] # o[j]}

\* model strings that may carry a per-model default
DefaultKeys == {<<"A">>, <<"a", "/", "A">>}

\* upstream catalog snapshots: a failing catalog endpoint or a list of ids
catX == << <<"a", "A", "A">>, <<"A", "a">>, <<"a", "A">>, << >>, <<"A">> >>
catY == << <<"A", "/", "a">>, <<"/", "A">>, <<"A", "/">>, <<"a", "/", "A">>, <<"A">> >>
Catalogs == {[err |-> TRUE, models |-> << >>], [err |-> FALSE, models |-> << >>],
             [err |-> FALSE, models |-> catX], [err |-> FALSE, models |-> catY]}

\* the snapshots the model search tells apart: a catalog with no ids and a
\* failing one both yield no candidate
SearchCatalogs == Catalogs \ {[err |-> FALSE, models |-> << >>]}

\* the snapshot used while the per-model defaults vary: a model with a
\* default never reaches the search, so one listing catalog and one failing
\* catalog cover the search there
RefCatalog(p) == IF p = pA THEN [err |-> FALSE, models |-> catX]
                 ELSE [err |-> TRUE, models |-> << >>]

VARIABLES
    Providers,                \* registered provider names (keys of cr.Providers)
    ProviderOrder,            \* cr.ProviderOrder
    DefaultProviderForModel,  \* cr.DefaultProviderForModel: model -> list of providers
    knownModelsCache,         \* cr.knownModelsCache: model -> (actualModelName, providerName)
    catalog,                  \* upstream state: provider -> outcome of its catalog fetch
    req,                      \* chat requests in flight, by slot
    served,                   \* chat requests started so far
    mpc, providerConfigs, resultsChan, posted, response, prevResponse, modelsCalls,
    pconf,                    \* the *ProviderConfig values of cr.Providers, by name
    prov,                     \* progress and outcome of Provision and Validate
    px,                       \* one chat request on its way through a provider's proxy
    cf                        \* one run of the Cloudflare adapter's catalog fetch

vars == <<Providers, ProviderOrder, DefaultProviderForModel, knownModelsCache, catalog,
          req, served, mpc, providerConfigs, resultsChan, posted, response, prevResponse,
          modelsCalls, pconf, prov, px, cf>>

configVars == <<Providers, ProviderOrder, DefaultProviderForModel, catalog, pconf, prov>>
modelsVars == <<mpc, providerConfigs, resultsChan, posted, response, prevResponse, modelsCalls>>
chatVars == <<knownModelsCache, req, served>>

\* ------------------------------------------------------------ provisioning
\* base URLs a configuration may carry: none, one url.Parse rejects (a bad
\* percent escape), a relative one and an absolute one
URLs == {"", "%zz", "up/v1", "https://up/v1"}

\* url.Parse on these inputs
urlParse(rawURL) ==
    IF rawURL = "%zz" THEN [err |-> TRUE, url |-> "nil"]
    ELSE IF rawURL = "https://up/v1"
    THEN [err |-> FALSE, url |-> [Scheme |-> "https", Host |-> "up", Path |-> <<"/v1">>]]
    ELSE [err |-> FALSE, url |-> [Scheme |-> "", Host |-> "", Path |-> <<rawURL>>]]

Styles == {"", "anthropic", "cloudflare", "google"}

\* the switch on p.Style
AdapterFor(style) ==
    IF style = "google" THEN "GoogleProvider"
    ELSE IF style = "anthropic" THEN "AnthropicProvider"
    ELSE IF style = "cloudflare" THEN "CloudflareProvider"
    ELSE "OpenAIProvider"

\* a ProviderConfig as the configuration delivers it: only the base URL and
\* the style are set
RawConfig(url, style) ==
    [Name |-> Empty, APIBaseURL |-> url, Style |-> style,
     Provider |-> "nil", parsedURL |-> "nil", proxy |-> FALSE]

\* a ProviderConfig after its iteration of the loop in Provision
Provisioned(name, url, style) ==
    [Name |-> name, APIBaseURL |-> url, Style |-> style,
     Provider |-> AdapterFor(style), parsedURL |-> urlParse(url).url, proxy |-> TRUE]

ProvFail(msg) == [pc |-> "failed", i |-> 0, err |-> msg]

\* one iteration of the loop over cr.ProviderOrder in Provision
ProvisionProvider ==
    /\ prov.pc = "loop"
    /\ prov.i <= Len(ProviderOrder)
    /\ LET name == ProviderOrder[prov.i]
       IN  IF name \notin Providers
           THEN \* cr.Providers[name] is nil: p.Name = name panics
                /\ prov' = [pc |-> "panic", i |-> 0, err |-> "nil pointer dereference"]
                /\ UNCHANGED pconf
           ELSE LET p == pconf[name]
                IN  IF p.APIBaseURL = ""
                    THEN /\ prov' = ProvFail("api_base_url is required")
                         /\ pconf' = [pconf EXCEPT ![name].Name = name]
                    ELSE IF urlParse(p.APIBaseURL).err
                    THEN /\ prov' = ProvFail("invalid api_base_url")
                         /\ pconf' = [pconf EXCEPT ![name].Name = name]
                    ELSE /\ prov' = [prov EXCEPT !.i = prov.i + 1]
                         /\ pconf' = [pconf EXCEPT ![name] =
                                         Provisioned(name, p.APIBaseURL, p.Style)]
    /\ UNCHANGED <<Providers, ProviderOrder, DefaultProviderForModel, catalog,
                   chatVars, modelsVars, px, cf>>

\* the check of cr.DefaultProviderForModel and the return of Provision
ProvisionDefaults ==
    /\ prov.pc = "loop"
    /\ prov.i > Len(ProviderOrder)
    /\ prov' = IF \E m \in DOMAIN DefaultProviderForModel :
                    \E k \in DOMAIN DefaultProviderForModel[m] :
                      DefaultProviderForModel[m][k] \notin Providers
               THEN ProvFail("default provider is not a configured provider")
               ELSE [pc |-> "validate", i |-> 0, err |-> "nil"]
    /\ UNCHANGED <<Providers, ProviderOrder, DefaultProviderForModel, catalog, pconf,
                   chatVars, modelsVars, px, cf>>

\* Validate, called once Provision has returned nil
Validate ==
    /\ prov.pc = "validate"
    /\ prov' = IF Cardinality(Providers) = 0
               THEN ProvFail("at least one provider must be configured")
               ELSE [pc |-> "ok", i |-> 0, err |-> "nil"]
    /\ UNCHANGED <<Providers, ProviderOrder, DefaultProviderForModel, catalog, pconf,
                   chatVars, modelsVars, px, cf>>

\* ---------------------------------------------------------------- resolver
\* The AICoreRouter struct has no super_default_provider field; the
\* resolver's last rule reads the zero value.
SuperDefaultProvider == Empty

\* The per-model default is a list of provider names; the resolver takes the
\* first listed provider that is registered, Empty when none is.
RECURSIVE FirstRegistered(_)
FirstRegistered(pNames) ==
    IF pNames = << >> THEN Empty
    ELSE IF Head(pNames) \in Providers THEN Head(pNames)
    ELSE FirstRegistered(Tail(pNames))

\* variant: the prefix is looked up as written, without lower-casing
resolveProviderAndModel_NoLower(requestedModel) ==
    LET parts == SplitN2(requestedModel)
        pName == parts[1]
        dflt  == IF requestedModel \in DOMAIN DefaultProviderForModel
                 THEN FirstRegistered(DefaultProviderForModel[requestedModel])
                 ELSE Empty
    IN  IF Len(parts) = 2 /\ pName \in Providers
        THEN [providerName |-> pName, actualModelName |-> parts[2]]
        ELSE IF dflt # Empty
        THEN [providerName |-> dflt, actualModelName |-> requestedModel]
        ELSE [providerName |-> Empty, actualModelName |-> requestedModel]

\* variant: the per-model default rule is skipped
resolveProviderAndModel_NoDefault(requestedModel) ==
    LET parts == SplitN2(requestedModel)
        pName == ToLower(parts[1])
    IN  IF Len(parts) = 2 /\ pName \in Providers
        THEN [providerName |-> pName, actualModelName |-> parts[2]]
        ELSE [providerName |-> Empty, actualModelName |-> requestedModel]

resolveProviderAndModel(requestedModel) ==
    LET parts == SplitN2(requestedModel)
        pName == ToLower(parts[1])
        dflt  == IF requestedModel \in DOMAIN DefaultProviderForModel
                 THEN FirstRegistered(DefaultProviderForModel[requestedModel])
                 ELSE Empty
    IN  IF Len(parts) = 2 /\ pName \in Providers
        THEN [providerName |-> pName, actualModelName |-> parts[2]]
        ELSE IF dflt # Empty
        THEN [providerName |-> dflt, actualModelName |-> requestedModel]
        ELSE IF SuperDefaultProvider # Empty /\ SuperDefaultProvider \in Providers
        THEN [providerName |-> SuperDefaultProvider, actualModelName |-> requestedModel]
        ELSE [providerName |-> Empty, actualModelName |-> requestedModel]

\* ------------------------------------------------------------ credentials
Services == {"env", "custom"}

\* what a lookup finds: the state of the environment variable for the
\* default provider, the outcome of the backend for an injected one
Worlds(service) ==
    IF service = "env" THEN {"set", "empty", "unset"} ELSE {"key", "absent", "error"}

KeyOf(target) == <<"k">> \o target

\* os.Getenv: the value, "" for an unset variable
Getenv(world, target) == IF world = "set" THEN KeyOf(target) ELSE Empty

\* DefaultEnvAPIKeyProvider.GetExternalAPIKey
DefaultEnvGetExternalAPIKey(world, target) ==
    IF target = Empty THEN [key |-> Empty, err |-> TRUE]
    ELSE LET apiKey == Getenv(world, target)
         IN  IF apiKey = Empty THEN [key |-> Empty, err |-> TRUE]
             ELSE [key |-> apiKey, err |-> FALSE]

\* ExternalAPIKeyProvider.GetExternalAPIKey of the provider in use
GetExternalAPIKey(service, world, target) ==
    IF service = "env" THEN DefaultEnvGetExternalAPIKey(world, target)
    ELSE IF world = "key" THEN [key |-> KeyOf(target), err |-> FALSE]
    ELSE IF world = "absent" THEN [key |-> Empty, err |-> FALSE]
    ELSE [key |-> Empty, err |-> TRUE]

\* ------------------------------------------------------------ live search
\* variant: the lookup never finds an entry
knownModelsCacheLoad_Miss(cache, model) ==
    [ok |-> FALSE, value |-> [actualModelName |-> Empty, providerName |-> Empty]]

\* cr.knownModelsCache.Load
knownModelsCacheLoad(cache, model) ==
    IF model \in DOMAIN cache THEN [ok |-> TRUE, value |-> cache[model]]
    ELSE [ok |-> FALSE, value |-> [actualModelName |-> Empty, providerName |-> Empty]]

\* variant: a store over an existing entry writes a different value
knownModelsCacheStore_SecondDiffers(cache, model, value) ==
    [m \in (DOMAIN cache) \cup {model} |->
        IF m = model
        THEN IF model \in DOMAIN cache THEN [value EXCEPT !.actualModelName = model] ELSE value
        ELSE cache[m]]

\* cr.knownModelsCache.Store
knownModelsCacheStore(cache, model, value) ==
    [m \in (DOMAIN cache) \cup {model} |-> IF m = model THEN value ELSE cache[m]]

\* variant: the fall-through order is walked from its end
providerNamesToCheck_Reversed(model) ==
    IF model \in DOMAIN DefaultProviderForModel
    THEN DefaultProviderForModel[model]
    ELSE [i \in 1..Len(ProviderOrder) |-> ProviderOrder[Len(ProviderOrder) + 1 - i]]

\* the providers the live search walks
providerNamesToCheck(model) ==
    IF model \in DOMAIN DefaultProviderForModel
    THEN DefaultProviderForModel[model]
    ELSE ProviderOrder

\* Provider.FetchModels against the upstream snapshot
FetchModels(pName) == catalog[pName]

\* a catalog entry whose "id" is missing or is not a JSON string: the
\* adapters hand the upstream's entries on as they decoded them
NonStringId == <<"<non-string>">>

\* the scan of the search reads every id with the unchecked type assertion
\* model["id"].(string), which panics on such an entry
HasNonStringId(availableModels) ==
    \E i \in DOMAIN availableModels : availableModels[i] = NonStringId

\* the scan of one catalog: closestModel and minDist after the first n entries
RECURSIVE ClosestScan(_, _, _)
ClosestScan(availableModels, requested, n) ==
    IF n = 0 THEN [closestModel |-> Empty, minDist |-> -1]
    ELSE LET acc     == ClosestScan(availableModels, requested, n - 1)
             modelID == availableModels[n]
         IN  IF modelID = Empty THEN acc
             ELSE IF ~Contains(modelID, requested) THEN acc
             ELSE LET dist == DamerauLevenshteinDistance(requested, modelID)
                  IN  IF acc.minDist = -1 \/ dist < acc.minDist
                      THEN [closestModel |-> modelID, minDist |-> dist]
                      ELSE acc

\* variant: a later entry at the same distance replaces the earlier one
RECURSIVE ClosestScanLastWins(_, _, _)
ClosestScanLastWins(availableModels, requested, n) ==
    IF n = 0 THEN [closestModel |-> Empty, minDist |-> -1]
    ELSE LET acc     == ClosestScanLastWins(availableModels, requested, n - 1)
             modelID == availableModels[n]
         IN  IF modelID = Empty THEN acc
             ELSE IF ~Contains(modelID, requested) THEN acc
             ELSE LET dist == DamerauLevenshteinDistance(requested, modelID)
                  IN  IF acc.minDist = -1 \/ dist <= acc.minDist
                      THEN [closestModel |-> modelID, minDist |-> dist]
                      ELSE acc

ClosestModel_LastWins(availableModels, requested) ==
    ClosestScanLastWins(availableModels, requested, Len(availableModels)).closestModel

ClosestModel(availableModels, requested) ==
    ClosestScan(availableModels, requested, Len(availableModels)).closestModel

\* ----------------------------------------------------------- chat handler
IdleReq ==
    [pc |-> "idle", model |-> Empty, providerName |-> Empty,
     actualModelName |-> Empty, via |-> "none", cachedAtLoad |-> FALSE,
     toCheck |-> << >>, idx |-> 0, keyCalls |-> << >>, fetchCalls |-> << >>,
     searchKeyFail |-> FALSE, credService |-> "nolookup", credWorld |-> "nolookup",
     apiKey |-> Empty,
     status |-> 0, panic |-> FALSE, sent |-> FALSE, attempts |-> << >>,
     upstream |-> "none",
     upHeaders |-> [XProviderName |-> Empty, XModelName |-> Empty],
     respHeaders |-> [XProviderName |-> Empty, XModelName |-> Empty]]

\* handler goroutines: Slots may run side by side, the sequential
\* specification uses the first only
Slots == {1, 2}

Serial == {1}

Finish(rec, code) == [rec EXCEPT !.pc = "done", !.status = code]

\* variant: the correction cache is consulted before the resolver
ResolveRequest_CacheFirst(cache, model) ==
    LET base == [IdleReq EXCEPT !.model = model,
                                !.cachedAtLoad = (model \in DOMAIN cache)]
        res  == resolveProviderAndModel(model)
        got  == [base EXCEPT !.providerName = res.providerName,
                             !.actualModelName = res.actualModelName]
        hit  == knownModelsCacheLoad(cache, model)
    IN  IF model = Empty THEN Finish(base, 400)
        ELSE IF hit.ok
             THEN [got EXCEPT !.pc = "cred", !.via = "cache",
                              !.actualModelName = hit.value.actualModelName,
                              !.providerName = hit.value.providerName]
        ELSE IF res.actualModelName = Empty THEN Finish(got, 400)
        ELSE IF res.providerName # Empty
             THEN [got EXCEPT !.pc = "cred", !.via = "resolver"]
        ELSE [got EXCEPT !.pc = "search", !.toCheck = providerNamesToCheck(model),
                         !.idx = 1]

\* handlePostInferenceRequest up to the choice of the providers to search,
\* on the cache as the request finds it: the model field, the resolver, the
\* cache lookup when the resolver names no provider, else the search list
ResolveRequest(cache, model) ==
    LET base == [IdleReq EXCEPT !.model = model,
                                !.cachedAtLoad = (model \in DOMAIN cache)]
        res  == resolveProviderAndModel(model)
        got  == [base EXCEPT !.providerName = res.providerName,
                             !.actualModelName = res.actualModelName]
        hit  == knownModelsCacheLoad(cache, model)
    IN  IF model = Empty THEN Finish(base, 400)
        ELSE IF res.actualModelName = Empty THEN Finish(got, 400)
        ELSE IF res.providerName # Empty
             THEN [got EXCEPT !.pc = "cred", !.via = "resolver"]
        ELSE IF hit.ok
             THEN [got EXCEPT !.pc = "cred", !.via = "cache",
                              !.actualModelName = hit.value.actualModelName,
                              !.providerName = hit.value.providerName]
        ELSE [got EXCEPT !.pc = "search", !.toCheck = providerNamesToCheck(model),
                         !.idx = 1]

\* a chat request arrives and is resolved as far as the cache lookup
Receive(r, model) ==
    /\ req[r].pc = "idle"
    /\ served < MaxRequests
    /\ served' = served + 1
    /\ req' = [req EXCEPT ![r] = ResolveRequest(knownModelsCache, model)]
    /\ UNCHANGED <<knownModelsCache, configVars, modelsVars, px, cf>>

\* variant: a provider whose key cannot be acquired is skipped
SearchProvider_SkipOnKeyFail(r) ==
    /\ req[r].pc = "search"
    /\ req[r].idx <= Len(req[r].toCheck)
    /\ LET cur   == req[r]
           pName == cur.toCheck[cur.idx]
           next  == [cur EXCEPT !.idx = cur.idx + 1]
       IN  IF pName \notin Providers
           THEN /\ req' = [req EXCEPT ![r] = next]
                /\ UNCHANGED knownModelsCache
           ELSE \E service \in Services : \E world \in Worlds(service) :
                LET k       == GetExternalAPIKey(service, world, ToLower(pName))
                    keyed   == [next EXCEPT !.keyCalls = Append(cur.keyCalls, pName)]
                    failed  == [keyed EXCEPT !.idx = cur.idx, !.searchKeyFail = TRUE]
                    f       == FetchModels(pName)
                    fetched == [keyed EXCEPT !.fetchCalls = Append(cur.fetchCalls, pName)]
                    closest == ClosestModel(f.models, cur.model)
                IN  IF k.err
                    THEN /\ req' = [req EXCEPT ![r] = [keyed EXCEPT !.searchKeyFail = TRUE]]
                         /\ UNCHANGED knownModelsCache
                    ELSE IF k.key = Empty
                    THEN /\ req' = [req EXCEPT ![r] = [keyed EXCEPT !.searchKeyFail = TRUE]]
                         /\ UNCHANGED knownModelsCache
                    ELSE IF f.err
                    THEN /\ req' = [req EXCEPT ![r] = fetched]
                         /\ UNCHANGED knownModelsCache
                    ELSE IF HasNonStringId(f.models)
                    THEN /\ req' = [req EXCEPT ![r] =
                                      [fetched EXCEPT !.pc = "done", !.panic = TRUE]]
                         /\ UNCHANGED knownModelsCache
                    ELSE IF closest # Empty
                    THEN /\ req' = [req EXCEPT ![r] =
                                      [fetched EXCEPT !.pc = "cred", !.via = "search",
                                                      !.idx = cur.idx,
                                                      !.actualModelName = closest,
                                                      !.providerName = pName]]
                         /\ knownModelsCache' =
                              knownModelsCacheStore(knownModelsCache, cur.model,
                                  [actualModelName |-> closest, providerName |-> pName])
                    ELSE /\ req' = [req EXCEPT ![r] = fetched]
                         /\ UNCHANGED knownModelsCache
    /\ UNCHANGED <<served, configVars, modelsVars, px, cf>>

\* variant: a failing catalog fetch ends the request with 502
SearchProvider_AbortOnFetchError(r) ==
    /\ req[r].pc = "search"
    /\ req[r].idx <= Len(req[r].toCheck)
    /\ LET cur   == req[r]
           pName == cur.toCheck[cur.idx]
           next  == [cur EXCEPT !.idx = cur.idx + 1]
       IN  IF pName \notin Providers
           THEN /\ req' = [req EXCEPT ![r] = next]
                /\ UNCHANGED knownModelsCache
           ELSE \E service \in Services : \E world \in Worlds(service) :
                LET k       == GetExternalAPIKey(service, world, ToLower(pName))
                    keyed   == [next EXCEPT !.keyCalls = Append(cur.keyCalls, pName)]
                    failed  == [keyed EXCEPT !.idx = cur.idx, !.searchKeyFail = TRUE]
                    f       == FetchModels(pName)
                    fetched == [keyed EXCEPT !.fetchCalls = Append(cur.fetchCalls, pName)]
                    closest == ClosestModel(f.models, cur.model)
                IN  IF k.err
                    THEN /\ req' = [req EXCEPT ![r] = Finish(failed, 503)]
                         /\ UNCHANGED knownModelsCache
                    ELSE IF k.key = Empty
                    THEN /\ req' = [req EXCEPT ![r] = Finish(failed, 403)]
                         /\ UNCHANGED knownModelsCache
                    ELSE IF f.err
                    THEN /\ req' = [req EXCEPT ![r] = Finish(fetched, 502)]
                         /\ UNCHANGED knownModelsCache
                    ELSE IF HasNonStringId(f.models)
                    THEN /\ req' = [req EXCEPT ![r] =
                                      [fetched EXCEPT !.pc = "done", !.panic = TRUE]]
                         /\ UNCHANGED knownModelsCache
                    ELSE IF closest # Empty
                    THEN /\ req' = [req EXCEPT ![r] =
                                      [fetched EXCEPT !.pc = "cred", !.via = "search",
                                                      !.idx = cur.idx,
                                                      !.actualModelName = closest,
                                                      !.providerName = pName]]
                         /\ knownModelsCache' =
                              knownModelsCacheStore(knownModelsCache, cur.model,
                                  [actualModelName |-> closest, providerName |-> pName])
                    ELSE /\ req' = [req EXCEPT ![r] = fetched]
                         /\ UNCHANGED knownModelsCache
    /\ UNCHANGED <<served, configVars, modelsVars, px, cf>>

\* one iteration of the live search loop: key, catalog, closest match,
\* store; the scan of a catalog with a non-string id panics and the server
\* drops the request without a response
SearchProvider(r) ==
    /\ req[r].pc = "search"
    /\ req[r].idx <= Len(req[r].toCheck)
    /\ LET cur   == req[r]
           pName == cur.toCheck[cur.idx]
           next  == [cur EXCEPT !.idx = cur.idx + 1]
       IN  IF pName \notin Providers
           THEN /\ req' = [req EXCEPT ![r] = next]
                /\ UNCHANGED knownModelsCache
           ELSE \E service \in Services : \E world \in Worlds(service) :
                LET k       == GetExternalAPIKey(service, world, ToLower(pName))
                    keyed   == [next EXCEPT !.keyCalls = Append(cur.keyCalls, pName)]
                    failed  == [keyed EXCEPT !.idx = cur.idx, !.searchKeyFail = TRUE]
                    f       == FetchModels(pName)
                    fetched == [keyed EXCEPT !.fetchCalls = Append(cur.fetchCalls, pName)]
                    closest == ClosestModel(f.models, cur.model)
                IN  IF k.err
                    THEN /\ req' = [req EXCEPT ![r] = Finish(failed, 503)]
                         /\ UNCHANGED knownModelsCache
                    ELSE IF k.key = Empty
                    THEN /\ req' = [req EXCEPT ![r] = Finish(failed, 403)]
                         /\ UNCHANGED knownModelsCache
                    ELSE IF f.err
                    THEN /\ req' = [req EXCEPT ![r] = fetched]
                         /\ UNCHANGED knownModelsCache
                    ELSE IF HasNonStringId(f.models)
                    THEN /\ req' = [req EXCEPT ![r] =
                                      [fetched EXCEPT !.pc = "done", !.panic = TRUE]]
                         /\ UNCHANGED knownModelsCache
                    ELSE IF closest # Empty
                    THEN /\ req' = [req EXCEPT ![r] =
                                      [fetched EXCEPT !.pc = "cred", !.via = "search",
                                                      !.idx = cur.idx,
                                                      !.actualModelName = closest,
                                                      !.providerName = pName]]
                         /\ knownModelsCache' =
                              knownModelsCacheStore(knownModelsCache, cur.model,
                                  [actualModelName |-> closest, providerName |-> pName])
                    ELSE /\ req' = [req EXCEPT ![r] = fetched]
                         /\ UNCHANGED knownModelsCache
    /\ UNCHANGED <<served, configVars, modelsVars, px, cf>>

\* variant: an exhausted search falls through to the provider lookup
SearchExhausted_FallThrough(r) ==
    /\ req[r].pc = "search"
    /\ req[r].idx > Len(req[r].toCheck)
    /\ req' = [req EXCEPT ![r].pc = "cred"]
    /\ UNCHANGED <<knownModelsCache, served, configVars, modelsVars, px, cf>>

\* the loop ran out of providers without a match
SearchExhausted(r) ==
    /\ req[r].pc = "search"
    /\ req[r].idx > Len(req[r].toCheck)
    /\ req' = [req EXCEPT ![r] = Finish(req[r], 400)]
    /\ UNCHANGED <<knownModelsCache, served, configVars, modelsVars, px, cf>>

\* variant: the two credential failures answer with each other's status
Credential_Swapped(r) ==
    /\ req[r].pc = "cred"
    /\ LET cur == req[r]
       IN  IF cur.providerName \notin Providers
           THEN req' = [req EXCEPT ![r] = Finish(cur, 500)]
           ELSE \E service \in Services : \E world \in Worlds(service) :
                LET k    == GetExternalAPIKey(service, world, ToLower(cur.providerName))
                    seen == [cur EXCEPT !.credService = service, !.credWorld = world]
                IN  req' = [req EXCEPT ![r] =
                      IF k.err THEN Finish(seen, 403)
                      ELSE IF k.key = Empty THEN Finish(seen, 503)
                      ELSE [seen EXCEPT !.pc = "proxy", !.apiKey = k.key]]
    /\ UNCHANGED <<knownModelsCache, served, configVars, modelsVars, px, cf>>

\* provider lookup and the upstream key for the resolved provider
Credential(r) ==
    /\ req[r].pc = "cred"
    /\ LET cur == req[r]
       IN  IF cur.providerName \notin Providers
           THEN req' = [req EXCEPT ![r] = Finish(cur, 500)]
           ELSE \E service \in Services : \E world \in Worlds(service) :
                LET k    == GetExternalAPIKey(service, world, ToLower(cur.providerName))
                    seen == [cur EXCEPT !.credService = service, !.credWorld = world]
                IN  req' = [req EXCEPT ![r] =
                      IF k.err THEN Finish(seen, 503)
                      ELSE IF k.key = Empty THEN Finish(seen, 403)
                      ELSE [seen EXCEPT !.pc = "proxy", !.apiKey = k.key]]
    /\ UNCHANGED <<knownModelsCache, served, configVars, modelsVars, px, cf>>

\* hand-off to the provider's reverse proxy: the upstream answers, or the
\* transport fails and the error handler renders 502
UpstreamStatuses == {200, 502}

\* the X-Provider-Name and X-Model-Name headers an upstream may put on its
\* own response; Empty is an absent header (Header.Get returns "")
NoHeaders == [XProviderName |-> Empty, XModelName |-> Empty]

UpstreamHeaders ==
    {NoHeaders,
     [XProviderName |-> <<"x">>, XModelName |-> Empty],
     [XProviderName |-> Empty, XModelName |-> <<"x">>]}

\* variant: only the provider header is stamped
ModifyResponseHeaders_ProviderOnly(p, modelName, h) ==
    IF p.Provider # "nil" /\ h.XProviderName = Empty
    THEN [h EXCEPT !.XProviderName = p.Name]
    ELSE h

\* the header part of the ModifyResponse callback of provider p, on the
\* headers h of the upstream's response
ModifyResponseHeaders(p, modelName, h) ==
    IF p.Provider # "nil" /\ h.XProviderName = Empty
    THEN [XProviderName |-> p.Name, XModelName |-> modelName]
    ELSE h

\* variant: a transport failure leaves the request with the proxy, which
\* tries again
Proxy_Retry(r) ==
    /\ req[r].pc = "proxy"
    /\ LET cur   == req[r]
           tried == [cur EXCEPT !.sent = TRUE,
                                !.attempts = Append(cur.attempts, cur.providerName)]
       IN  \E code \in UpstreamStatuses : \E h \in UpstreamHeaders :
             req' = [req EXCEPT ![r] =
               IF code = 502 /\ Len(cur.attempts) = 0
               THEN [tried EXCEPT !.upstream = "error"]
               ELSE IF code = 502
               THEN [Finish(tried, 502) EXCEPT !.upstream = "error"]
               ELSE [Finish(tried, code) EXCEPT
                       !.upstream = "response", !.upHeaders = h,
                       !.respHeaders = ModifyResponseHeaders(pconf[cur.providerName],
                                                             cur.actualModelName, h)]]
    /\ UNCHANGED <<knownModelsCache, served, configVars, modelsVars, px, cf>>

\* providerConfig.proxy.ServeHTTP: one round trip to the provider; a
\* response goes through ModifyResponse, a transport failure through the
\* error handler
Proxy(r) ==
    /\ req[r].pc = "proxy"
    /\ LET cur   == req[r]
           tried == [cur EXCEPT !.sent = TRUE,
                                !.attempts = Append(cur.attempts, cur.providerName)]
       IN  \E code \in UpstreamStatuses : \E h \in UpstreamHeaders :
             req' = [req EXCEPT ![r] =
               IF code = 502
               THEN [Finish(tried, 502) EXCEPT !.upstream = "error"]
               ELSE [Finish(tried, code) EXCEPT
                       !.upstream = "response", !.upHeaders = h,
                       !.respHeaders = ModifyResponseHeaders(pconf[cur.providerName],
                                                             cur.actualModelName, h)]]
    /\ UNCHANGED <<knownModelsCache, served, configVars, modelsVars, px, cf>>

\* the handler has returned; the slot serves the next request
Return(r) ==
    /\ req[r].pc = "done"
    /\ req' = [req EXCEPT ![r] = IdleReq]
    /\ UNCHANGED <<knownModelsCache, served, configVars, modelsVars, px, cf>>

\* ------------------------------------------------------------ GET /models
\* the merge after the join: channel order, failed results dropped, first
\* occurrence of an id kept
RECURSIVE MergeModels(_, _)
MergeModels(models, allModels) ==
    IF models = << >> THEN allModels
    ELSE IF \E i \in DOMAIN allModels : allModels[i] = Head(models)
         THEN MergeModels(Tail(models), allModels)
         ELSE MergeModels(Tail(models), Append(allModels, Head(models)))

RECURSIVE MergeResults(_, _)
MergeResults(results, allModels) ==
    IF results = << >> THEN allModels
    ELSE IF Head(results).err
         THEN MergeResults(Tail(results), allModels)
         ELSE MergeResults(Tail(results), MergeModels(Head(results).models, allModels))

NoResponse == [status |-> 0, data |-> << >>]

\* snapshot of the registry (map iteration order) and dispatch of one task
\* per provider
ModelsStart ==
    /\ mpc \in {"idle", "done"}
    /\ modelsCalls < MaxModelsCalls
    /\ modelsCalls' = modelsCalls + 1
    /\ prevResponse' = response
    /\ \E o \in Orders(Providers) : providerConfigs' = o
    /\ posted' = {}
    /\ resultsChan' = << >>
    /\ IF Providers = {}
       THEN /\ mpc' = "done"
            /\ response' = [status |-> 200, data |-> << >>]
       ELSE /\ mpc' = "running"
            /\ response' = NoResponse
    /\ UNCHANGED <<configVars, chatVars, px, cf>>

\* variant: the results channel has no buffer
ModelsTask_Unbuffered(p) ==
    /\ mpc = "running"
    /\ \E i \in DOMAIN providerConfigs : providerConfigs[i] = p
    /\ p \notin posted
    /\ Len(resultsChan) < 0
    /\ resultsChan' = Append(resultsChan,
                             [providerName |-> pconf[p].Name, err |-> TRUE, models |-> << >>])
    /\ posted' = posted \cup {p}
    /\ UNCHANGED <<mpc, providerConfigs, response, prevResponse, modelsCalls,
                   configVars, chatVars, px, cf>>

\* one per-provider task: key lookup (a failure only logs), the error
\* result of a provider without adapter, else the catalog fetch; on each
\* path one result is sent on the channel, whose buffer holds
\* len(providerConfigs) results (a send on a full channel would wait)
ModelsTask(p) ==
    /\ mpc = "running"
    /\ \E i \in DOMAIN providerConfigs : providerConfigs[i] = p
    /\ p \notin posted
    /\ Len(resultsChan) < Len(providerConfigs)
    /\ \E service \in Services : \E world \in Worlds(service) :
         LET k      == GetExternalAPIKey(service, world, p)
             apiKey == IF k.err THEN Empty ELSE k.key
             f      == FetchModels(p)
             name   == pconf[p].Name
         IN  resultsChan' = Append(resultsChan,
                 IF pconf[p].Provider = "nil"
                 THEN [providerName |-> name, err |-> TRUE, models |-> << >>]
                 ELSE IF f.err THEN [providerName |-> name, err |-> TRUE, models |-> << >>]
                 ELSE [providerName |-> name, err |-> FALSE, models |-> f.models])
    /\ posted' = posted \cup {p}
    /\ UNCHANGED <<mpc, providerConfigs, response, prevResponse, modelsCalls,
                   configVars, chatVars, px, cf>>

\* variant: the response is written once the first result has arrived
ModelsRespond_NoWait ==
    /\ mpc = "running"
    /\ posted # {}
    /\ response' = [status |-> 200, data |-> MergeResults(resultsChan, << >>)]
    /\ mpc' = "done"
    /\ UNCHANGED <<providerConfigs, resultsChan, posted, prevResponse, modelsCalls,
                   configVars, chatVars, px, cf>>

\* variant: one failed result empties the aggregate
ModelsRespond_AbortOnError ==
    /\ mpc = "running"
    /\ \A i \in DOMAIN providerConfigs : providerConfigs[i] \in posted
    /\ response' = [status |-> 200,
                    data |-> IF \E i \in DOMAIN resultsChan : resultsChan[i].err
                             THEN << >>
                             ELSE MergeResults(resultsChan, << >>)]
    /\ mpc' = "done"
    /\ UNCHANGED <<providerConfigs, resultsChan, posted, prevResponse, modelsCalls,
                   configVars, chatVars, px, cf>>

\* wg.Wait, close, merge, 200
ModelsRespond ==
    /\ mpc = "running"
    /\ \A i \in DOMAIN providerConfigs : providerConfigs[i] \in posted
    /\ response' = [status |-> 200, data |-> MergeResults(resultsChan, << >>)]
    /\ mpc' = "done"
    /\ UNCHANGED <<providerConfigs, resultsChan, posted, prevResponse, modelsCalls,
                   configVars, chatVars, px, cf>>

\* ------------------------------------------------------ proxy pipeline
\* JSON numbers are naturals below 2^54, written hi * 2^27 + lo
Two26 == 67108864
Two27 == 134217728

Num(hi, lo) == [hi |-> hi, lo |-> lo]

\* json.Unmarshal into map[string]any stores a number as a float64: exact
\* up to 2^53, rounded to the nearest even multiple of two above it
Float64(n) ==
    IF n.hi < Two26 \/ (n.hi = Two26 /\ n.lo = 0) THEN n
    ELSE IF n.lo % 2 = 0 THEN n
    ELSE IF ((n.lo - 1) \div 2) % 2 = 0 THEN Num(n.hi, n.lo - 1)
    ELSE IF n.lo + 1 = Two27 THEN Num(n.hi + 1, 0)
    ELSE Num(n.hi, n.lo + 1)

\* keys of a chat body that hold numbers
NumberKeys == {"seed", "max_tokens"}

\* json.Unmarshal of an object into map[string]any
UnmarshalMap(body) ==
    [k \in DOMAIN body |-> IF k \in NumberKeys THEN Float64(body[k]) ELSE body[k]]

\* delete(bodyMap, key)
DeleteKey(bodyMap, key) == [k \in (DOMAIN bodyMap) \ {key} |-> bodyMap[k]]

\* transforms.TransformRequestToCloudflareAI: decode, drop "model", encode
TransformRequestToCloudflareAI(originalBody, modelName) ==
    LET bodyMap == UnmarshalMap(originalBody)
    IN  IF "model" \in DOMAIN bodyMap THEN DeleteKey(bodyMap, "model") ELSE bodyMap

\* the loop of TransformRequestToAnthropic over the first n messages
RECURSIVE AnthropicScan(_, _)
AnthropicScan(messages, n) ==
    IF n = 0 THEN [System |-> Empty, Messages |-> << >>]
    ELSE LET acc == AnthropicScan(messages, n - 1)
             msg == messages[n]
         IN  IF msg.role = "system"
             THEN IF acc.System # Empty
                  THEN [acc EXCEPT !.System = acc.System \o <<"\n">> \o msg.content]
                  ELSE [acc EXCEPT !.System = msg.content]
             ELSE [acc EXCEPT !.Messages =
                     Append(acc.Messages,
                            [role |-> IF msg.role = "assistant" THEN "assistant" ELSE "user",
                             content |-> msg.content])]

\* transforms.TransformRequestToAnthropic: the AnthropicMessagesRequest that
\* is encoded; system is left out of the encoding when empty (omitempty)
TransformRequestToAnthropic(originalBody, modelName) ==
    LET messages == IF "messages" \in DOMAIN originalBody
                    THEN originalBody["messages"] ELSE << >>
        scan     == AnthropicScan(messages, Len(messages))
        base     == [model |-> modelName, messages |-> scan.Messages,
                     max_tokens |-> IF "max_tokens" \in DOMAIN originalBody
                                    THEN originalBody["max_tokens"] ELSE Num(0, 1024)]
    IN  IF scan.System # Empty
        THEN [k \in (DOMAIN base) \cup {"system"} |->
                IF k = "system" THEN scan.System ELSE base[k]]
        ELSE base

\* strings.TrimRight(path, "/") on a path written as a sequence of segments
RECURSIVE TrimRightSlash(_)
TrimRightSlash(path) ==
    IF path # << >> /\ path[Len(path)] = "/"
    THEN TrimRightSlash(SubSeq(path, 1, Len(path) - 1))
    ELSE path

\* the request as the handler hands it to the proxy: the client's body and
\* the Authorization header of line 186
Bearer(apiKey) == <<"Bearer ">> \o apiKey

\* Director of the provider's proxy followed by the adapter's
\* ModifyCompletionRequest
Director ==
    /\ px.pc = "director"
    /\ LET auth == px.out.headers.Authorization
           path == TrimRightSlash(px.p.parsedURL.Path)
       IN  px' = [px EXCEPT !.pc = "roundtrip", !.out =
             IF px.p.Provider = "CloudflareProvider"
             THEN [path |-> path \o <<"/run/">> \o px.modelName,
                   headers |-> px.out.headers,
                   body |-> TransformRequestToCloudflareAI(px.body, px.modelName)]
             ELSE [path |-> path \o <<"/v1/messages">>,
                   headers |-> [Authorization |-> Empty, xApiKey |-> auth,
                                ContentType |-> "application/json"],
                   body |-> TransformRequestToAnthropic(px.body, px.modelName)]]
    /\ UNCHANGED <<configVars, chatVars, modelsVars, cf>>

\* an upstream body is a sequence of tokens: the SSE marker "data: ", a
\* newline, the [DONE] sentinel, a JSON document or text that is not JSON
JSONDocs == {"{response:A}", "{result:{response:A}}", "{result:{}}", "{}"}

Payloads == JSONDocs \cup {"oops"}

BodyTokens == {"data: ", "\n", "[DONE]", "{response:A}", "oops"}

\* json.Unmarshal accepts a body that is exactly one JSON document
ValidJSON(body) == Len(body) = 1 /\ body[1] \in JSONDocs

\* transforms.TransformResponseFromCloudflareAI
TransformResponseFromCloudflareAI(respBody) ==
    IF ~ValidJSON(respBody) THEN [body |-> respBody, err |-> TRUE]
    ELSE IF respBody[1] = "{result:{}}" THEN [body |-> respBody, err |-> FALSE]
    ELSE IF respBody[1] = "{}" THEN [body |-> <<"{choices:[{content:}]}">>, err |-> FALSE]
    ELSE [body |-> <<"{choices:[{content:A}]}">>, err |-> FALSE]

\* transforms.TransformResponseFromAnthropic: none of the documents above
\* has a content block, so the unified response has no choice
TransformResponseFromAnthropic(respBody) ==
    IF ~ValidJSON(respBody) THEN [body |-> respBody, err |-> FALSE]
    ELSE [body |-> <<"{choices:[]}">>, err |-> FALSE]

\* the per-document transform an adapter hands to the chunk hook
AdapterTransform(adapter, body) ==
    IF adapter = "CloudflareProvider" THEN TransformResponseFromCloudflareAI(body)
    ELSE TransformResponseFromAnthropic(body)

\* strings.Split(body, "data: "): the pieces between the markers, one more
\* than there are markers
RECURSIVE SplitData(_, _)
SplitData(body, cur) ==
    IF body = << >> THEN <<cur>>
    ELSE IF Head(body) = "data: " THEN <<cur>> \o SplitData(Tail(body), << >>)
    ELSE SplitData(Tail(body), Append(cur, Head(body)))

\* strings.TrimSpace
RECURSIVE TrimSpace(_)
TrimSpace(chunk) ==
    IF chunk = << >> THEN chunk
    ELSE IF Head(chunk) = "\n" THEN TrimSpace(Tail(chunk))
    ELSE IF chunk[Len(chunk)] = "\n" THEN TrimSpace(SubSeq(chunk, 1, Len(chunk) - 1))
    ELSE chunk

\* the loop over the chunks: transformedChunks so far, or the first error
RECURSIVE ChunkLoop(_, _, _)
ChunkLoop(adapter, chunks, transformedChunks) ==
    IF chunks = << >> THEN [chunks |-> transformedChunks, err |-> FALSE]
    ELSE LET chunk == TrimSpace(Head(chunks))
         IN  IF chunk = << >> \/ chunk = <<"[DONE]">>
             THEN ChunkLoop(adapter, Tail(chunks), transformedChunks)
             ELSE LET t == AdapterTransform(adapter, chunk)
                  IN  IF t.err THEN [chunks |-> transformedChunks, err |-> TRUE]
                      ELSE ChunkLoop(adapter, Tail(chunks),
                                     Append(transformedChunks, <<"data: ">> \o t.body))

\* strings.Join(elems, "\n\n")
RECURSIVE JoinBlank(_)
JoinBlank(elems) ==
    IF elems = << >> THEN << >>
    ELSE IF Len(elems) = 1 THEN elems[1]
    ELSE elems[1] \o <<"\n", "\n">> \o JoinBlank(Tail(elems))

ContentTypes == {"application/json", "text/event-stream", "text/event-stream; charset=utf-8"}

\* common.HookHttpResponseJsonChunks
HookHttpResponseJsonChunks(adapter, contentType, body) ==
    IF contentType = "application/json" THEN AdapterTransform(adapter, body)
    ELSE IF contentType = "text/event-stream"
    THEN LET l == ChunkLoop(adapter, SplitData(body, << >>), << >>)
         IN  IF l.err THEN [body |-> body, err |-> TRUE]
             ELSE [body |-> JoinBlank(l.chunks), err |-> FALSE]
    ELSE [body |-> body, err |-> FALSE]

\* the upstream answers, or the transport fails and the error handler
\* renders 502
RoundTrip ==
    /\ px.pc = "roundtrip"
    /\ \/ px' = [px EXCEPT !.pc = "response",
                            !.resp = [status |-> 200, headers |-> px.upstream.headers,
                                      contentType |-> px.upstream.contentType,
                                      body |-> px.upstream.body, closed |-> FALSE]]
       \/ px' = [px EXCEPT !.pc = "done", !.resp.status = 502]
    /\ UNCHANGED <<configVars, chatVars, modelsVars, cf>>

\* ModifyResponse of the provider's proxy. Under the marker test: the two
\* headers and the inference_proxy_response event. After it, marker or not:
\* the adapter's ModifyCompletionResponse through
\* common.HookHttpResponseBody; when the hook fails the response keeps the
\* body it has read and closed
ModifyResponse ==
    /\ px.pc = "response"
    /\ LET fresh == px.p.Provider # "nil" /\ px.resp.headers.XProviderName = Empty
           h == ModifyResponseHeaders(px.p, px.modelName, px.resp.headers)
           t == HookHttpResponseJsonChunks(px.p.Provider, px.resp.contentType, px.resp.body)
       IN  px' = IF px.p.Provider = "nil" THEN [px EXCEPT !.pc = "done"]
                 ELSE [px EXCEPT !.pc = "done", !.resp.headers = h,
                            !.events = IF fresh THEN px.events + 1 ELSE px.events,
                            !.hookCalls = px.hookCalls + 1,
                            !.resp.body = IF t.err THEN << >> ELSE t.body,
                            !.resp.closed = t.err]
    /\ UNCHANGED <<configVars, chatVars, modelsVars, cf>>

\* chat bodies: the model the handler read, a list of messages, and
\* optionally a seed and max_tokens
Roles == {"system", "user", "assistant", "tool"}

Contents == {Empty, <<"x">>, <<"y">>}

Messages == [role : Roles, content : Contents]

MsgLists == UNION {[1..k -> Messages] : k \in 0..MaxMsgs}

Numbers == {Num(0, 1), Num(Two26, 0), Num(Two26, 1), Num(Two26, 3)}

RefMessages == <<[role |-> "system", content |-> <<"x">>], [role |-> "user", content |-> <<"y">>]>>

BodyWith(messages, extra) ==
    [k \in {"model", "messages"} \cup DOMAIN extra |->
       IF k = "model" THEN <<"A">>
       ELSE IF k = "messages" THEN messages
       ELSE extra[k]]

Extras ==
    {<< >>} \cup {[k \in {key} |-> n] : key \in NumberKeys, n \in Numbers}
            \cup {[k \in NumberKeys |-> n] : n \in Numbers}

Bodies == {BodyWith(ms, << >>) : ms \in MsgLists} \cup {BodyWith(RefMessages, e) : e \in Extras}

RefBody == BodyWith(RefMessages, << >>)

TokenSeqs == UNION {[1..k -> BodyTokens] : k \in 0..MaxBody}

Responses ==
    {[headers |-> NoHeaders, contentType |-> "application/json", body |-> <<d>>] :
        d \in Payloads}
    \cup {[headers |-> NoHeaders, contentType |-> ct, body |-> b] :
            ct \in ContentTypes \ {"application/json"}, b \in TokenSeqs}
    \cup {[headers |-> h, contentType |-> "application/json", body |-> <<d>>] :
            h \in UpstreamHeaders, d \in Payloads}

RefResponse ==
    [headers |-> NoHeaders, contentType |-> "application/json", body |-> <<"{response:A}">>]

PxIdle ==
    [pc |-> "idle", p |-> Provisioned(pA, "https://up/v1", ""), modelName |-> Empty,
     apiKey |-> Empty, body |-> << >>, upstream |-> RefResponse,
     out |-> [path |-> << >>,
              headers |-> [Authorization |-> Empty, xApiKey |-> Empty, ContentType |-> ""],
              body |-> << >>],
     resp |-> [status |-> 0, headers |-> NoHeaders, contentType |-> "", body |-> << >>,
               closed |-> FALSE],
     events |-> 0, hookCalls |-> 0, clientAuth |-> Empty]

\* the Authorization header the client sent: none, or a bearer token of
\* its own; the handler replaces it (Header.Set, line 186)
ClientAuths == {Empty, Bearer(<<"c">>)}

\* a request as the chat handler hands it to the proxy of its provider
PxStart(style, body, upstream) ==
    [PxIdle EXCEPT !.pc = "director",
                   !.p = Provisioned(pA, "https://up/v1", style),
                   !.modelName = <<"A">>,
                   !.apiKey = KeyOf(pA),
                   !.body = body,
                   !.upstream = upstream,
                   !.out = [path |-> << >>,
                            headers |-> [Authorization |-> Bearer(KeyOf(pA)),
                                         xApiKey |-> Empty, ContentType |-> "application/json"],
                            body |-> body]]

\* ------------------------------------------- Cloudflare catalog fetch
IterationCap == 1000     \* the hard upper bound of the paging loop
perPage == 100           \* the page size the fetch asks for
MaxFree == 2             \* responses the upstream picks freely before it settles

\* the paging part of a response: result_info (absent or present), its
\* cursors.after ("" also stands for absent cursors), total_pages and count
NoInfo == [present |-> FALSE, after |-> "", totalPages |-> 0, count |-> 0]

Infos ==
    {NoInfo} \cup [present : {TRUE}, after : {"", "c1", "c2"}, totalPages : {0, 3},
                   count : {0, perPage}]

\* the entries of a page, by kind: names entries have a string name, others
\* have none and are dropped by the type test of line 204
Pages == {[names |-> 0, others |-> 0], [names |-> 1, others |-> 1],
          [names |-> perPage, others |-> 0]}

\* what the upstream answers: a 200 with a decodable body, or anything else
FailedResponse == [ok |-> FALSE, names |-> 0, others |-> 0, info |-> NoInfo]

FetchResponses ==
    {FailedResponse} \cup
    {[ok |-> TRUE, names |-> pg.names, others |-> pg.others, info |-> inf] :
        pg \in Pages, inf \in Infos}

\* the responses an upstream may settle on
FullPage(after, count) ==
    [ok |-> TRUE, names |-> perPage, others |-> 0,
     info |-> [present |-> TRUE, after |-> after, totalPages |-> 0, count |-> count]]

SteadyResponses == {FullPage("c1", perPage), FullPage("c2", 0), FullPage("", perPage)}

NoRequest == [cursor |-> "", page |-> 0]

CfIdle ==
    [pc |-> "idle", i |-> 0, page |-> 1, cursor |-> "", all |-> 0, free |-> 0,
     steady |-> FailedResponse, lastReq |-> NoRequest, lastResp |-> FailedResponse,
     result |-> [err |-> FALSE, models |-> 0]]

\* the state at the head of the loop: page 1, no cursor, nothing accumulated
CfStart(steady) == [CfIdle EXCEPT !.pc = "loop", !.steady = steady]

\* the query of one request: the cursor when there is one, else page
\* (per_page is always perPage)
FetchQuery(cursor, page) ==
    IF cursor # "" THEN [cursor |-> cursor, page |-> 0]
    ELSE [cursor |-> "", page |-> page]

\* the decision at the end of one iteration, on the decoded response pr
FetchDecide(c, pr) ==
    LET all == c.all + pr.names
        got == [c EXCEPT !.all = all]
        stop == [got EXCEPT !.pc = "done", !.result = [err |-> FALSE, models |-> all]]
    IN  IF pr.info.present
        THEN IF pr.info.after # "" THEN [got EXCEPT !.cursor = pr.info.after]
             ELSE IF pr.info.totalPages > 0
                  THEN IF c.page >= pr.info.totalPages THEN stop
                       ELSE [got EXCEPT !.page = c.page + 1]
             ELSE IF pr.info.count < perPage \/ pr.names + pr.others < perPage THEN stop
             ELSE [got EXCEPT !.page = c.page + 1]
        ELSE stop

\* variant: the loop has no upper bound
FetchIteration_NoCap ==
    /\ cf.pc = "loop"
    /\ \E pr \in (IF cf.free < MaxFree THEN FetchResponses ELSE {cf.steady}) :
         LET sent == [cf EXCEPT !.i = IF cf.i < IterationCap + 1 THEN cf.i + 1 ELSE cf.i,
                                !.free = IF cf.free < MaxFree THEN cf.free + 1 ELSE cf.free,
                                !.lastReq = FetchQuery(cf.cursor, cf.page),
                                !.lastResp = pr]
         IN  cf' = IF ~pr.ok
                   THEN [sent EXCEPT !.pc = "done", !.result = [err |-> TRUE, models |-> 0]]
                   ELSE FetchDecide(sent, pr)
    /\ UNCHANGED <<configVars, chatVars, modelsVars, px>>

\* one iteration of the loop of CloudflareProvider.FetchModels: request,
\* response, accumulation, decision
FetchIteration ==
    /\ cf.pc = "loop"
    /\ cf.i < IterationCap
    /\ \E pr \in (IF cf.free < MaxFree THEN FetchResponses ELSE {cf.steady}) :
         LET sent == [cf EXCEPT !.i = cf.i + 1,
                                !.free = IF cf.free < MaxFree THEN cf.free + 1 ELSE cf.free,
                                !.lastReq = FetchQuery(cf.cursor, cf.page),
                                !.lastResp = pr]
         IN  cf' = IF ~pr.ok
                   THEN [sent EXCEPT !.pc = "done", !.result = [err |-> TRUE, models |-> 0]]
                   ELSE FetchDecide(sent, pr)
    /\ UNCHANGED <<configVars, chatVars, modelsVars, px>>

\* the loop condition fails: return all, nil
FetchCapped ==
    /\ cf.pc = "loop"
    /\ cf.i >= IterationCap
    /\ cf' = [cf EXCEPT !.pc = "done", !.result = [err |-> FALSE, models |-> cf.all]]
    /\ UNCHANGED <<configVars, chatVars, modelsVars, px>>

\* ------------------------------------------------------- specifications
\* non-empty lists of registered providers, none twice
ProviderLists(P) == UNION {Orders(S) : S \in (SUBSET P) \ {{}}}

DefaultMaps(P) ==
    {<< >>} \cup {[m \in {k} |-> l] : k \in DefaultKeys, l \in ProviderLists(P)}

\* the state after a successful Provision and Validate, before any request
Provisioned0 ==
    /\ pconf = [p \in Providers |-> Provisioned(p, "https://up/v1", "")]
    /\ prov = [pc |-> "ok", i |-> 0, err |-> "nil"]
    /\ px = PxIdle
    /\ cf = CfIdle
    /\ knownModelsCache = << >>
    /\ req = [r \in Slots |-> IdleReq]
    /\ served = 0
    /\ mpc = "idle"
    /\ providerConfigs = << >>
    /\ resultsChan = << >>
    /\ posted = {}
    /\ response = NoResponse
    /\ prevResponse = NoResponse
    /\ modelsCalls = 0

Init ==
    /\ Providers \in (SUBSET PNames) \ {{}}
    /\ ProviderOrder \in Orders(Providers)
    /\ \/ /\ DefaultProviderForModel = << >>
          /\ catalog \in [Providers -> SearchCatalogs]
       \/ /\ DefaultProviderForModel \in DefaultMaps(Providers) \ {<< >>}
          /\ catalog = [p \in Providers |-> RefCatalog(p)]
    /\ Provisioned0

Next ==
    \/ \E r \in Serial : \E model \in Strs(MaxLen) : Receive(r, model)
    \/ \E r \in Serial : SearchProvider(r)
    \/ \E r \in Serial : SearchExhausted(r)
    \/ \E r \in Serial : Credential(r)
    \/ \E r \in Serial : Proxy(r)
    \/ \E r \in Serial : Return(r)

Spec == Init /\ [][Next]_vars

InitModels ==
    /\ Providers \in (SUBSET PNames) \ {{}}
    /\ ProviderOrder \in Orders(Providers)
    /\ DefaultProviderForModel = << >>
    /\ catalog \in [Providers -> Catalogs]
    /\ Provisioned0

NextModels ==
    \/ ModelsStart
    \/ \E p \in PNames : ModelsTask(p)
    \/ ModelsRespond

SpecModels == InitModels /\ [][NextModels]_vars

InitProxy ==
    /\ Providers = {pA}
    /\ ProviderOrder = <<pA>>
    /\ DefaultProviderForModel = << >>
    /\ catalog = [p \in Providers |-> RefCatalog(p)]
    /\ \E style \in {"anthropic", "cloudflare"} :
         /\ pconf = [p \in Providers |-> Provisioned(p, "https://up/v1", style)]
         /\ \E auth \in ClientAuths :
              \/ \E body \in Bodies :
                    px = [PxStart(style, body, RefResponse) EXCEPT !.clientAuth = auth]
              \/ \E up \in Responses :
                    px = [PxStart(style, RefBody, up) EXCEPT !.clientAuth = auth]
    /\ prov = [pc |-> "ok", i |-> 0, err |-> "nil"]
    /\ cf = CfIdle
    /\ knownModelsCache = << >>
    /\ req = [r \in Slots |-> IdleReq]
    /\ served = 0
    /\ mpc = "idle"
    /\ providerConfigs = << >>
    /\ resultsChan = << >>
    /\ posted = {}
    /\ response = NoResponse
    /\ prevResponse = NoResponse
    /\ modelsCalls = 0

NextProxy ==
    \/ Director
    \/ RoundTrip
    \/ ModifyResponse

SpecProxy == InitProxy /\ [][NextProxy]_vars

\* GET /models over registries in which a provider may be left out of the
\* provider order and so has no adapter; every started task runs on and
\* the handler resumes when its wait is over
InitModelsLive ==
    /\ Providers \in (SUBSET PNames) \ {{}}
    /\ ProviderOrder \in ProviderLists(Providers)
    /\ DefaultProviderForModel = << >>
    /\ catalog \in [Providers -> Catalogs]
    /\ pconf = [p \in Providers |->
                  IF \E i \in DOMAIN ProviderOrder : ProviderOrder[i] = p
                  THEN Provisioned(p, "https://up/v1", "")
                  ELSE RawConfig("https://up/v1", "")]
    /\ prov = [pc |-> "ok", i |-> 0, err |-> "nil"]
    /\ px = PxIdle
    /\ cf = CfIdle
    /\ knownModelsCache = << >>
    /\ req = [r \in Slots |-> IdleReq]
    /\ served = 0
    /\ mpc = "idle"
    /\ providerConfigs = << >>
    /\ resultsChan = << >>
    /\ posted = {}
    /\ response = NoResponse
    /\ prevResponse = NoResponse
    /\ modelsCalls = 0

SpecModelsLive ==
    /\ InitModelsLive
    /\ [][NextModels]_vars
    /\ \A p \in PNames : WF_vars(ModelsTask(p))
    /\ WF_vars(ModelsRespond)

\* two handler goroutines side by side over one registry of two providers:
\* the model strings are few so that the two requests meet on one
ConcurrentModels == {<<"A">>, <<"/">>}

InitConcurrent ==
    /\ Providers = PNames
    /\ ProviderOrder \in Orders(Providers)
    /\ DefaultProviderForModel = << >>
    /\ catalog \in [Providers -> SearchCatalogs]
    /\ Provisioned0

NextConcurrent ==
    \/ \E r \in Slots : \E model \in ConcurrentModels : Receive(r, model)
    \/ \E r \in Slots : SearchProvider(r)
    \/ \E r \in Slots : SearchExhausted(r)
    \/ \E r \in Slots : Credential(r)
    \/ \E r \in Slots : Proxy(r)
    \/ \E r \in Slots : Return(r)

SpecConcurrent == InitConcurrent /\ [][NextConcurrent]_vars

\* catalogs as an OpenAI-style upstream may deliver them: ids that are
\* empty, ids that are no strings, and well-formed ones around them
UpstreamCatalogs ==
    {[err |-> FALSE, models |-> ms] :
        ms \in {<< <<"A">> >>, << Empty, <<"A">> >>, << NonStringId, <<"A">> >>,
                << <<"A">>, NonStringId >>, << <<"a">>, NonStringId >>}}

InitMalformed ==
    /\ Providers = PNames
    /\ ProviderOrder \in Orders(Providers)
    /\ DefaultProviderForModel = << >>
    /\ catalog \in [Providers -> UpstreamCatalogs]
    /\ Provisioned0

SpecMalformed == InitMalformed /\ [][Next]_vars

\* one catalog fetch of a Cloudflare-style provider, against an upstream
\* that settles on one of the steady responses
InitFetch ==
    /\ Providers = {pA}
    /\ ProviderOrder = <<pA>>
    /\ DefaultProviderForModel = << >>
    /\ catalog = [p \in Providers |-> RefCatalog(p)]
    /\ pconf = [p \in Providers |-> Provisioned(p, "https://up/v1", "cloudflare")]
    /\ prov = [pc |-> "ok", i |-> 0, err |-> "nil"]
    /\ px = PxIdle
    /\ \E steady \in SteadyResponses : cf = CfStart(steady)
    /\ knownModelsCache = << >>
    /\ req = [r \in Slots |-> IdleReq]
    /\ served = 0
    /\ mpc = "idle"
    /\ providerConfigs = << >>
    /\ resultsChan = << >>
    /\ posted = {}
    /\ response = NoResponse
    /\ prevResponse = NoResponse
    /\ modelsCalls = 0

NextFetch ==
    \/ FetchIteration
    \/ FetchCapped

SpecFetch == InitFetch /\ [][NextFetch]_vars

\* the fetch runs on its caller's goroutine and every request it makes is
\* answered: an enabled step of the loop is eventually taken
SpecFetchLive == SpecFetch /\ WF_vars(NextFetch)

\* configurations as the host delivers them: the three fields are
\* independent of one another
OrderLists == UNION {[1..k -> PNames] : k \in 0..2}

RawDefaultMaps ==
    {<< >>} \cup {[m \in {<<"A">>} |-> l] : l \in OrderLists \ {<< >>}}

InitProvision ==
    /\ Providers \in SUBSET PNames
    /\ ProviderOrder \in OrderLists
    /\ DefaultProviderForModel \in RawDefaultMaps
    /\ pconf \in [Providers -> {RawConfig(u, st) : u \in URLs, st \in Styles}]
    /\ prov = [pc |-> "loop", i |-> 1, err |-> "nil"]
    /\ px = PxIdle
    /\ cf = CfIdle
    /\ catalog = [p \in Providers |-> RefCatalog(p)]
    /\ knownModelsCache = << >>
    /\ req = [r \in Slots |-> IdleReq]
    /\ served = 0
    /\ mpc = "idle"
    /\ providerConfigs = << >>
    /\ resultsChan = << >>
    /\ posted = {}
    /\ response = NoResponse
    /\ prevResponse = NoResponse
    /\ modelsCalls = 0

NextProvision ==
    \/ ProvisionProvider
    \/ ProvisionDefaults
    \/ Validate

SpecProvision == InitProvision /\ [][NextProvision]_vars

\* ----------------------------------------------------------------- claims
\* position of the first "/" of a model string, 0 when it has none
FirstSlash(m) ==
    IF \E k \in 1..Len(m) : m[k] = "/"
    THEN CHOOSE k \in 1..Len(m) : m[k] = "/" /\ \A j \in 1..(k - 1) : m[j] # "/"
    ELSE 0

\* the model string is p/m with p, lower-cased, a registered provider
RegisteredPrefix(m) ==
    /\ FirstSlash(m) > 0
    /\ ToLower(SubSeq(m, 1, FirstSlash(m) - 1)) \in Providers

Received(r) == req[r].pc # "idle" /\ req[r].model # Empty

\* C1: a chat request whose model is p/m, with p lower-cased a registered
\* provider, is resolved to (p lower-cased, all the text after the first
\* "/"), whatever the defaults, the order and the cache hold.
C1_ExplicitPrefix ==
    \A r \in Slots :
        (Received(r) /\ RegisteredPrefix(req[r].model)) =>
            /\ req[r].providerName = ToLower(SubSeq(req[r].model, 1, FirstSlash(req[r].model) - 1))
            /\ req[r].actualModelName =
                   SubSeq(req[r].model, FirstSlash(req[r].model) + 1, Len(req[r].model))

\* an upper-case prefix of a model that also carries a default, with a
\* non-empty cache, resolved by the prefix
C1_Witness ==
    \E r \in Slots :
        /\ req[r].pc = "cred"
        /\ req[r].model = <<"A", "/", "A">>
        /\ req[r].providerName = pA
        /\ req[r].actualModelName = <<"A">>
        /\ ProviderOrder = <<pB, pA>>
        /\ <<"a", "/", "A">> \in DOMAIN DefaultProviderForModel
        /\ knownModelsCache # << >>

\* a second "/" stays in the model name
C1_WitnessSlash ==
    \E r \in Slots : req[r].model = <<"a", "/", "/">> /\ req[r].actualModelName = <<"/">>

\* C2 as stated: a request for exactly m, where m has a default whose first
\* provider p1 is registered, is resolved to (p1, m).
C2_Original ==
    \A r \in Slots :
        (/\ Received(r)
         /\ req[r].model \in DOMAIN DefaultProviderForModel
         /\ DefaultProviderForModel[req[r].model][1] \in Providers) =>
            /\ req[r].providerName = DefaultProviderForModel[req[r].model][1]
            /\ req[r].actualModelName = req[r].model

\* C2 amended: the same, for a model string that does not start with the
\* prefix of a registered provider.
C2_PerModelDefault ==
    \A r \in Slots :
        (/\ Received(r)
         /\ req[r].model \in DOMAIN DefaultProviderForModel
         /\ DefaultProviderForModel[req[r].model][1] \in Providers
         /\ ~RegisteredPrefix(req[r].model)) =>
            /\ req[r].providerName = DefaultProviderForModel[req[r].model][1]
            /\ req[r].actualModelName = req[r].model

\* a default with two candidates, not first in the provider order, taken
C2_Witness ==
    \E r \in Slots :
        /\ req[r].pc = "proxy"
        /\ req[r].model = <<"A">>
        /\ DefaultProviderForModel[<<"A">>] = <<pB, pA>>
        /\ ProviderOrder = <<pA, pB>>
        /\ req[r].providerName = pB
        /\ req[r].actualModelName = <<"A">>

Pair(r) == [actualModelName |-> req[r].actualModelName, providerName |-> req[r].providerName]

\* a request that found its model in the cache took the cached pair and
\* called neither the credential provider nor a catalog while resolving
C3_HitUsesCache ==
    \A r \in Slots :
        (Received(r) /\ req[r].cachedAtLoad) =>
            /\ req[r].via = "cache"
            /\ Pair(r) = knownModelsCache[req[r].model]
            /\ req[r].keyCalls = << >>
            /\ req[r].fetchCalls = << >>

\* a live search that resolves a model leaves exactly its pair in the cache
C3_SearchStores ==
    \A r \in Slots :
        (req[r].via # "search" /\ req'[r].via = "search") =>
            /\ req'[r].model \in DOMAIN knownModelsCache'
            /\ knownModelsCache'[req'[r].model] = Pair(r)'

\* an entry, once stored, stays as it is
C3_EntriesStay ==
    \A m \in DOMAIN knownModelsCache :
        m \in DOMAIN knownModelsCache' /\ knownModelsCache'[m] = knownModelsCache[m]

\* C3: once a live search has resolved a model string, every later
\* resolution of that string returns the pair the search stored, without a
\* credential lookup or a catalog fetch during the resolution.
C3_CachedResolution ==
    /\ [] C3_HitUsesCache
    /\ [][C3_SearchStores /\ C3_EntriesStay]_vars

\* a second request served from the cache, proxied to the cached provider
C3_Witness ==
    \E r \in Slots :
        /\ req[r].pc = "done"
        /\ req[r].via = "cache"
        /\ req[r].sent
        /\ req[r].actualModelName # req[r].model
        /\ req[r].keyCalls = << >>
        /\ served = 2

\* the catalog of provider p yields a candidate for model string m
Yields(p, m) ==
    /\ ~catalog[p].err
    /\ \E i \in DOMAIN catalog[p].models :
           catalog[p].models[i] # Empty /\ Contains(catalog[p].models[i], m)

\* C4: the live search asks the providers one at a time in the configured
\* order and stops at the first whose catalog yields a candidate: the
\* resolved provider is the earliest one with a substring match and no
\* provider after it is fetched.
C4_SearchOrder ==
    \A r \in Slots :
        Received(r) =>
            /\ Len(req[r].fetchCalls) <= Len(ProviderOrder)
            /\ req[r].fetchCalls = SubSeq(ProviderOrder, 1, Len(req[r].fetchCalls))
            /\ \A i \in 1..(Len(req[r].fetchCalls) - 1) :
                   ~Yields(req[r].fetchCalls[i], req[r].model)
            /\ req[r].via = "search" =>
                   /\ req[r].fetchCalls # << >>
                   /\ req[r].providerName = req[r].fetchCalls[Len(req[r].fetchCalls)]
                   /\ Yields(req[r].providerName, req[r].model)

\* both providers have a match; the first in the order is taken and the
\* second is never fetched
C4_Witness ==
    \E r \in Slots :
        /\ req[r].via = "search"
        /\ ProviderOrder = <<pB, pA>>
        /\ Yields(pA, req[r].model)
        /\ req[r].providerName = pB
        /\ req[r].fetchCalls = <<pB>>

\* the search moved past a provider without a match and resolved at the next
C4_WitnessSecond ==
    \E r \in Slots :
        /\ req[r].via = "search"
        /\ req[r].fetchCalls = <<pA, pB>>
        /\ ~catalog[pA].err
        /\ req[r].providerName = pB

\* the candidates of a catalog for a model string
Candidates(models, m) == {i \in DOMAIN models : models[i] # Empty /\ Contains(models[i], m)}

Dist(models, m, i) == DamerauLevenshteinDistance(m, models[i])

\* C5: within the catalog of the resolved provider, the chosen id is a
\* candidate (contains the requested string) of minimum Damerau-Levenshtein
\* distance, and the first such entry of the catalog.
C5_ClosestFirst ==
    \A r \in Slots :
        req[r].via = "search" =>
            LET models == catalog[req[r].providerName].models
                m      == req[r].model
            IN  \E i \in Candidates(models, m) :
                    /\ req[r].actualModelName = models[i]
                    /\ \A j \in Candidates(models, m) : Dist(models, m, i) <= Dist(models, m, j)
                    /\ \A j \in Candidates(models, m) :
                           j < i => Dist(models, m, j) > Dist(models, m, i)

\* a tie at the minimum, behind a farther candidate and next to an entry
\* that is no candidate: the earlier of the two tied entries is chosen
C5_Witness ==
    \E r \in Slots :
        /\ req[r].via = "search"
        /\ LET models == catalog[req[r].providerName].models
               m      == req[r].model
           IN  \E i, j, k \in Candidates(models, m) :
                   /\ k < i /\ i < j
                   /\ req[r].actualModelName = models[i]
                   /\ models[j] # models[i]
                   /\ Dist(models, m, i) = Dist(models, m, j)
                   /\ Dist(models, m, k) > Dist(models, m, i)
                   /\ Cardinality(Candidates(models, m)) < Len(models)

\* no rule resolves the model string: no registered prefix, no declared
\* default, no cache entry when looked up, no provider of the order with a
\* candidate
NoRuleResolves(r) ==
    /\ Received(r)
    /\ ~RegisteredPrefix(req[r].model)
    /\ req[r].model \notin DOMAIN DefaultProviderForModel
    /\ ~req[r].cachedAtLoad
    /\ \A i \in DOMAIN ProviderOrder : ~Yields(ProviderOrder[i], req[r].model)

\* the step that answers request r
Answers(r) == req[r].pc # "done" /\ req'[r].pc = "done"

C6_Answered400 ==
    \A r \in Slots :
        (NoRuleResolves(r) /\ req[r].pc = "done" /\ ~req[r].searchKeyFail) =>
            (req[r].status = 400 /\ ~req[r].sent)

\* a request that no rule resolves is never sent upstream, and the only
\* other answers are those of a failed key lookup
C6_NeverSent ==
    \A r \in Slots :
        NoRuleResolves(r) =>
            /\ ~req[r].sent
            /\ req[r].pc \in {"search", "done"}
            /\ (req[r].pc = "done" /\ req[r].searchKeyFail) => req[r].status \in {403, 503}

CredResult(r) ==
    GetExternalAPIKey(req[r].credService, req[r].credWorld, ToLower(req[r].providerName))

CredLookedUp(r) == req[r].credWorld # "nolookup"

C7_WitnessError ==
    \E r \in Slots :
        /\ req[r].pc = "done"
        /\ req[r].credService = "custom"
        /\ req[r].credWorld = "error"
        /\ req[r].status = 503

\* C8: with the default environment key provider and the variable of the
\* resolved provider unset or empty, a request with an explicit registered
\* prefix is answered 403 and is not sent upstream.
C8_EnvKeyMissing403 ==
    \A r \in Slots :
        (/\ req[r].pc = "done"
         /\ RegisteredPrefix(req[r].model)
         /\ req[r].credService = "env"
         /\ req[r].credWorld \in {"unset", "empty"}) =>
            (req[r].status = 403 /\ ~req[r].sent)

\* the ids of the catalogs whose fetch succeeds
FetchedIds ==
    UNION {{catalog[p].models[i] : i \in DOMAIN catalog[p].models} :
               p \in {q \in Providers : ~catalog[q].err}}

\* C9: GET /models answers 200 with exactly the ids of the providers whose
\* fetch succeeded, each id once; a failing provider adds and removes
\* nothing.
C9_Aggregate ==
    mpc = "done" =>
        /\ response.status = 200
        /\ {response.data[i] : i \in DOMAIN response.data} = FetchedIds
        /\ \A i, j \in DOMAIN response.data : i # j => response.data[i] # response.data[j]

\* one provider fails, the other answers: its ids are all there
C9_Witness ==
    /\ mpc = "done"
    /\ \E p, q \in Providers : catalog[p].err /\ ~catalog[q].err /\ catalog[q].models # << >>
    /\ response.data # << >>
    /\ resultsChan[1].err

\* every provider fails: 200 with an empty list
C9_WitnessAllFail ==
    /\ mpc = "done"
    /\ Cardinality(Providers) = 2
    /\ \A p \in Providers : catalog[p].err
    /\ response = [status |-> 200, data |-> << >>]

\* the same id from two providers appears once
C9_WitnessDuplicate ==
    /\ mpc = "done"
    /\ \E p, q \in Providers :
           /\ p # q /\ ~catalog[p].err /\ ~catalog[q].err
           /\ \E i \in DOMAIN catalog[p].models, j \in DOMAIN catalog[q].models :
                  catalog[p].models[i] = catalog[q].models[j]

\* C10: with the configuration and the upstream catalogs fixed, two
\* GET /models calls return the same entries in the same order, however the
\* per-provider tasks are scheduled.
C10_SameOrder ==
    (mpc = "done" /\ modelsCalls >= 2) => response.data = prevResponse.data

\* ---- C11
ProvisionEnded == prov.pc \in {"ok", "failed", "panic"}

NoProvidersDefined == Providers = {}

DanglingDefault ==
    \E m \in DOMAIN DefaultProviderForModel :
      \E k \in DOMAIN DefaultProviderForModel[m] :
        DefaultProviderForModel[m][k] \notin Providers

BadBaseURL ==
    \E p \in Providers : pconf[p].APIBaseURL = "" \/ urlParse(pconf[p].APIBaseURL).err

\* C11: provisioning fails if and only if no providers are defined, or some
\* per-model default names a provider that is not defined, or some provider
\* has a missing or unparseable base URL.
C11_ProvisionFailsIff ==
    ProvisionEnded =>
      ((prov.pc # "ok") <=> (NoProvidersDefined \/ DanglingDefault \/ BadBaseURL))

\* ---- C12
\* the client received a response that came from the upstream
Relayed(r) == req[r].pc = "done" /\ req[r].upstream = "response"

ResolvedHeaders(r) ==
    [XProviderName |-> req[r].providerName, XModelName |-> req[r].actualModelName]

\* C12 as stated: every response relayed from an upstream carries
\* X-Provider-Name equal to the resolved provider and X-Model-Name equal to
\* the resolved actual model name.
C12_Original ==
    \A r \in Slots : Relayed(r) => req[r].respHeaders = ResolvedHeaders(r)

\* C12: a response relayed from an upstream that did not itself carry an
\* X-Provider-Name header carries X-Provider-Name equal to the resolved
\* provider and X-Model-Name equal to the resolved actual model name; a
\* response that came with the header keeps the upstream's two headers.
C12_ResponseHeaders ==
    \A r \in Slots :
      Relayed(r) =>
        IF req[r].upHeaders.XProviderName = Empty
        THEN req[r].respHeaders = ResolvedHeaders(r)
        ELSE req[r].respHeaders = req[r].upHeaders

\* a search-resolved request whose upstream sent its own X-Model-Name
C12_Witness ==
    \E r \in Slots :
      /\ Relayed(r)
      /\ req[r].via = "search"
      /\ req[r].actualModelName # req[r].model
      /\ req[r].upHeaders.XModelName # Empty
      /\ req[r].respHeaders = ResolvedHeaders(r)

C12_WitnessPreset ==
    \E r \in Slots :
      /\ Relayed(r)
      /\ req[r].upHeaders.XProviderName # Empty
      /\ req[r].respHeaders # ResolvedHeaders(r)

\* ---- C13
\* the Director has run: px.out is what the upstream receives
Directed == px.pc \in {"roundtrip", "response", "done"}

C13_NoModelKey ==
    (Directed /\ px.p.Provider = "CloudflareProvider") => "model" \notin DOMAIN px.out.body

\* C13: for a Cloudflare-style provider the body sent upstream has no
\* top-level model key and equals the client's body object with only that
\* key removed.
C13_CloudflareBody ==
    (Directed /\ px.p.Provider = "CloudflareProvider") =>
      /\ "model" \notin DOMAIN px.out.body
      /\ px.out.body = DeleteKey(px.body, "model")

\* ---- C14
IsSystem(msg) == msg.role = "system"

NotSystem(msg) == msg.role # "system"

\* the contents of a list of messages joined by a single newline
RECURSIVE JoinNewline(_)
JoinNewline(msgs) ==
    IF msgs = << >> THEN Empty
    ELSE IF Len(msgs) = 1 THEN msgs[1].content
    ELSE msgs[1].content \o <<"\n">> \o JoinNewline(Tail(msgs))

SystemField(body) == IF "system" \in DOMAIN body THEN body["system"] ELSE Empty

AnthropicSent == Directed /\ px.p.Provider = "AnthropicProvider"

\* the translated list has no system entry and keeps the other messages,
\* content for content, in their order
C14_MessagesKept ==
    AnthropicSent =>
      LET kept == SelectSeq(px.body["messages"], NotSystem)
          sent == px.out.body["messages"]
      IN  /\ Len(sent) = Len(kept)
          /\ \A i \in DOMAIN sent :
               sent[i].role # "system" /\ sent[i].content = kept[i].content

\* C14: the system field holds the contents of all system-role messages, in
\* their original order, joined by a single newline, and the translated
\* messages list has no system entry and keeps every other message in its
\* original relative order.
C14_AnthropicSystem ==
    AnthropicSent =>
      /\ SystemField(px.out.body) = JoinNewline(SelectSeq(px.body["messages"], IsSystem))
      /\ C14_MessagesKept

\* ---- C15
\* C15: for an Anthropic-style provider the upstream request carries no
\* Authorization header and its x-api-key header equals the resolved
\* credential itself, without the "Bearer " prefix.
C15_AnthropicKeyHeader ==
    AnthropicSent =>
      /\ px.out.headers.Authorization = Empty
      /\ px.out.headers.xApiKey = px.apiKey

\* ---- C16
\* the response has been through ModifyResponse
Mutated == px.pc = "done" /\ px.resp.status = 200

\* the media type of the upstream's response is text/event-stream
IsEventStream(contentType) ==
    contentType \in {"text/event-stream", "text/event-stream; charset=utf-8"}

Markers(body) == {i \in DOMAIN body : body[i] = "data: "}

\* position of the k-th marker; 0 before the first, Len + 1 after the last
MarkerAt(body, k) ==
    IF k = 0 THEN 0
    ELSE IF k > Cardinality(Markers(body)) THEN Len(body) + 1
    ELSE CHOOSE i \in Markers(body) : Cardinality({j \in Markers(body) : j < i}) = k - 1

\* the input chunks: the text before the first marker and after each marker,
\* without surrounding white space
Strip(chunk) ==
    LET solid == {i \in DOMAIN chunk : chunk[i] # "\n"}
    IN  IF solid = {} THEN << >>
        ELSE SubSeq(chunk, CHOOSE i \in solid : \A j \in solid : i <= j,
                           CHOOSE i \in solid : \A j \in solid : j <= i)

InputChunks(body) ==
    [k \in 1..(Cardinality(Markers(body)) + 1) |->
       Strip(SubSeq(body, MarkerAt(body, k - 1) + 1, MarkerAt(body, k) - 1))]

KeptChunk(chunk) == chunk # << >> /\ chunk # <<"[DONE]">>

\* one "data: " chunk per kept input chunk, blank lines between them
RECURSIVE Emitted(_, _)
Emitted(adapter, kept) ==
    IF kept = << >> THEN << >>
    ELSE LET first == <<"data: ">> \o AdapterTransform(adapter, Head(kept)).body
         IN  IF Len(kept) = 1 THEN first
             ELSE first \o <<"\n", "\n">> \o Emitted(adapter, Tail(kept))

\* C16: for any text/event-stream response the hook emits one transformed
\* "data: " chunk per non-empty, non-[DONE] input chunk, in the same order,
\* joined by blank lines, each chunk transformed on its own.
C16_SSEChunks ==
    (Mutated /\ IsEventStream(px.upstream.contentType)) =>
      /\ ~px.resp.closed
      /\ px.resp.body =
           Emitted(px.p.Provider, SelectSeq(InputChunks(px.upstream.body), KeptChunk))

\* C17: a chat request makes at most one upstream attempt, to the provider
\* it resolved to; a transport failure of that attempt ends the request with
\* 502 and nothing is tried again.
C17_SingleAttempt ==
    \A r \in Slots :
        /\ Len(req[r].attempts) <= 1
        /\ req[r].attempts # << >> =>
              /\ req[r].attempts = <<req[r].providerName>>
              /\ req[r].pc = "done"
        /\ req[r].upstream = "error" =>
              /\ req[r].pc = "done"
              /\ req[r].status = 502
              /\ Len(req[r].attempts) = 1

\* a request resolved by the live search over two providers whose single
\* attempt failed at the transport
C17_Witness ==
    \E r \in Slots :
        /\ req[r].pc = "done"
        /\ req[r].upstream = "error"
        /\ req[r].status = 502
        /\ req[r].via = "search"
        /\ Len(ProviderOrder) = 2
        /\ req[r].attempts = <<req[r].providerName>>

\* the provider the declared default of model m yields, Empty when m has none
DeclaredDefault(m) ==
    IF m \in DOMAIN DefaultProviderForModel
    THEN FirstRegistered(DefaultProviderForModel[m])
    ELSE Empty

\* cache entries a request could find under its model string
CachedPairs == {[actualModelName |-> <<"/">>, providerName |-> p] : p \in Providers}

\* C18: the rules apply in the order explicit prefix, declared default,
\* correction cache, live search, and the first that succeeds decides; a
\* model with a registered prefix or a declared default is resolved the
\* same way whatever entry the cache holds for it.
C18_RuleOrder ==
    \A r \in Slots :
        Received(r) =>
            LET cur == req[r]
                m   == cur.model
                byResolver == RegisteredPrefix(m) \/ DeclaredDefault(m) # Empty
            IN  /\ IF RegisteredPrefix(m)
                   THEN /\ cur.providerName = ToLower(SubSeq(m, 1, FirstSlash(m) - 1))
                        /\ cur.actualModelName = SubSeq(m, FirstSlash(m) + 1, Len(m))
                        /\ cur.via = IF cur.actualModelName = Empty THEN "none" ELSE "resolver"
                   ELSE IF DeclaredDefault(m) # Empty
                   THEN /\ cur.providerName = DeclaredDefault(m)
                        /\ cur.actualModelName = m
                        /\ cur.via = "resolver"
                   ELSE IF cur.cachedAtLoad
                   THEN /\ cur.via = "cache"
                        /\ cur.providerName = knownModelsCache[m].providerName
                        /\ cur.actualModelName = knownModelsCache[m].actualModelName
                        /\ cur.keyCalls = << >>
                        /\ cur.fetchCalls = << >>
                   ELSE /\ cur.via \in {"none", "search"}
                        /\ cur.via = "search" =>
                              /\ cur.fetchCalls # << >>
                              /\ knownModelsCache[m] = [actualModelName |-> cur.actualModelName,
                                                        providerName |-> cur.providerName]
                /\ byResolver =>
                      /\ cur.keyCalls = << >>
                      /\ cur.fetchCalls = << >>
                      /\ \A pr \in CachedPairs :
                            LET out == ResolveRequest(
                                           knownModelsCacheStore(knownModelsCache, m, pr), m)
                            IN  /\ out.via = IF cur.actualModelName = Empty
                                             THEN "none" ELSE "resolver"
                                /\ out.providerName = cur.providerName
                                /\ out.actualModelName = cur.actualModelName

\* a model with a default naming the second provider of the order, while
\* the first provider's catalog lists the model and the cache is not empty:
\* the default decides, also against a cache entry for that model
C18_Witness ==
    \E r \in Slots :
        /\ req[r].pc = "cred"
        /\ req[r].model = <<"A">>
        /\ <<"A">> \in DOMAIN DefaultProviderForModel
        /\ DefaultProviderForModel[<<"A">>] = <<pB, pA>>
        /\ ProviderOrder = <<pA, pB>>
        /\ Yields(pA, <<"A">>)
        /\ knownModelsCache # << >>
        /\ req[r].via = "resolver"
        /\ req[r].providerName = pB
        /\ ResolveRequest(knownModelsCacheStore(knownModelsCache, <<"A">>,
                              [actualModelName |-> <<"/">>, providerName |-> pA]),
                          <<"A">>).providerName = pB

\* the providers of the search list from position i on
FromPosition(r, i) == {req[r].toCheck[j] : j \in i..Len(req[r].toCheck)}

\* C19: when the key of the provider at some position of the search cannot
\* be acquired, the request ends there: the catalog of that provider and of
\* every later one is not fetched, nothing is sent upstream, and the
\* correction cache stays as it was.
C19_KeyFailState ==
    \A r \in Slots :
        req[r].searchKeyFail =>
            /\ req[r].pc = "done"
            /\ req[r].status \in {503, 403}
            /\ req[r].via = "none"
            /\ ~req[r].sent
            /\ req[r].attempts = << >>
            /\ req[r].upstream = "none"
            /\ req[r].idx \in DOMAIN req[r].toCheck
            /\ req[r].keyCalls # << >>
            /\ req[r].keyCalls[Len(req[r].keyCalls)] = req[r].toCheck[req[r].idx]
            /\ \A k \in DOMAIN req[r].fetchCalls :
                   req[r].fetchCalls[k] \notin FromPosition(r, req[r].idx)
            /\ req[r].model \notin DOMAIN knownModelsCache

C19_KeyFailStep ==
    \A r \in Slots :
        /\ (req'[r].searchKeyFail /\ ~req[r].searchKeyFail) =>
              /\ req[r].pc = "search"
              /\ knownModelsCache' = knownModelsCache
              /\ req'[r].fetchCalls = req[r].fetchCalls
        /\ (req[r].searchKeyFail /\ req'[r] # req[r]) => req'[r] = IdleReq

C19_SearchKeyFailure == []C19_KeyFailState /\ [][C19_KeyFailStep]_vars

\* the key of the first of two providers is refused while both catalogs
\* list the requested model and the cache already holds another model
C19_Witness ==
    \E r \in Slots :
        /\ req[r].pc = "done"
        /\ req[r].searchKeyFail
        /\ req[r].status = 403
        /\ req[r].idx = 1
        /\ Len(req[r].toCheck) = 2
        /\ req[r].fetchCalls = << >>
        /\ \A p \in Providers : Yields(p, req[r].model)
        /\ knownModelsCache # << >>

\* the key lookup fails at the second provider, after the first catalog
\* was fetched without a match
C19_WitnessSecond ==
    \E r \in Slots :
        /\ req[r].pc = "done"
        /\ req[r].searchKeyFail
        /\ req[r].status = 503
        /\ req[r].idx = 2
        /\ req[r].fetchCalls = <<req[r].toCheck[1]>>
        /\ Yields(req[r].toCheck[2], req[r].model)

\* every dispatched task has delivered exactly one result
AllDelivered ==
    /\ Len(resultsChan) = Len(providerConfigs)
    /\ \A i \in DOMAIN providerConfigs :
           \E j \in DOMAIN resultsChan : resultsChan[j].providerName = providerConfigs[i]

\* C20: GET /models writes its response only after every dispatched task
\* has delivered its result, in whatever order the tasks finish, and the
\* ids of every successful result are in the merge.
C20_JoinState ==
    /\ mpc = "running" => response = NoResponse
    /\ (mpc = "done" /\ providerConfigs # << >>) =>
          /\ AllDelivered
          /\ response.status = 200
          /\ response.data = MergeResults(resultsChan, << >>)
          /\ \A j \in DOMAIN resultsChan :
                 ~resultsChan[j].err =>
                     \A k \in DOMAIN resultsChan[j].models :
                         \E d \in DOMAIN response.data :
                             response.data[d] = resultsChan[j].models[k]

C20_JoinStep ==
    (response' # response /\ response'.status = 200) =>
        /\ AllDelivered
        /\ resultsChan' = resultsChan

C20_JoinBeforeResponse == []C20_JoinState /\ [][C20_JoinStep]_vars

\* the task dispatched first delivers last, and an id only it lists is in
\* the response
C20_Witness ==
    /\ mpc = "done"
    /\ Len(providerConfigs) = 2
    /\ Len(resultsChan) = 2
    /\ resultsChan[2].providerName = providerConfigs[1]
    /\ ~resultsChan[1].err
    /\ ~resultsChan[2].err
    /\ \E k \in DOMAIN resultsChan[2].models :
           /\ \A i \in DOMAIN resultsChan[1].models :
                  resultsChan[1].models[i] # resultsChan[2].models[k]
           /\ \E d \in DOMAIN response.data : response.data[d] = resultsChan[2].models[k]

\* the response the mutator was invoked on already carried the marker header
MarkerPreset == px.upstream.headers.XProviderName # Empty

\* C21: invoked on a response that already carries X-Provider-Name, the
\* mutator changes no header, emits no inference_proxy_response event and
\* does not run the adapter's body transform.
C21_NoReentry ==
    (Mutated /\ MarkerPreset) =>
        /\ px.resp.headers = px.upstream.headers
        /\ px.events = 0
        /\ px.hookCalls = 0
        /\ px.resp.body = px.upstream.body

\* the part of C21 the marker test does cover: headers and event
C21_MarkerSkipsHeaders ==
    (Mutated /\ MarkerPreset) =>
        /\ px.resp.headers = px.upstream.headers
        /\ px.events = 0

\* a marked Cloudflare response whose body was rewritten all the same
C21_WitnessTransformed ==
    /\ Mutated
    /\ MarkerPreset
    /\ px.p.Provider = "CloudflareProvider"
    /\ px.upstream.body = <<"{response:A}">>
    /\ px.resp.body = <<"{choices:[{content:A}]}">>
    /\ px.hookCalls = 1

\* the fetch has returned to its caller
Fetched == cf.pc = "done"

\* C22: the Cloudflare catalog fetch issues at most 1000 requests whatever
\* the upstream answers, and when the bound is reached it returns the
\* entries accumulated so far, without an error.
C22_Bounded ==
    /\ cf.i <= IterationCap
    /\ (cf.pc = "loop" /\ cf.i < IterationCap) => ENABLED FetchIteration
    /\ (cf.pc = "loop" /\ cf.i = IterationCap) => ENABLED FetchCapped
    /\ (Fetched /\ cf.lastResp.ok) =>
          /\ ~cf.result.err
          /\ cf.result.models = cf.all

\* C22, with termination: the bound holds throughout and the fetch returns
C22_Terminates == []C22_Bounded /\ <>Fetched

\* the upstream hands out a cursor for ever: the fetch returns after
\* request 1000 with the 1000 pages it has read
C22_Witness ==
    /\ Fetched
    /\ cf.i = IterationCap
    /\ cf.lastResp.info.after # ""
    /\ cf.lastReq.cursor # ""
    /\ ~cf.result.err
    /\ cf.result.models = IterationCap * perPage

\* the latest request was answered with a decodable 200
Answered == cf.i > 0 /\ cf.lastResp.ok

\* the latest request carried a cursor: an earlier response supplied one
InCursorMode == cf.lastReq.cursor # ""

\* C23: once a response has supplied a cursor, every following request
\* carries the cursor of the latest response and the fetch stops at the
\* first response whose cursor is empty; without cursors it pages until
\* page >= total_pages, or, when no total is given, until a page comes
\* back short.
C23_CursorState ==
    (Answered /\ InCursorMode /\ cf.lastResp.info.after = "") => Fetched

C23_CursorStep ==
    (cf.pc = "loop" /\ cf'.i = cf.i + 1 /\ cf.i > 0 /\ cf.cursor # "") =>
        cf'.lastReq = [cursor |-> cf.lastResp.info.after, page |-> 0]

C23_PageState ==
    (Answered /\ ~InCursorMode /\ cf.lastResp.info.after = "") =>
        LET inf == cf.lastResp.info
            last == \/ ~inf.present
                    \/ inf.totalPages > 0 /\ cf.lastReq.page >= inf.totalPages
                    \/ /\ inf.totalPages = 0
                       /\ (inf.count < perPage \/ cf.lastResp.names + cf.lastResp.others < perPage)
        IN  /\ last => Fetched
            /\ Fetched => (last \/ cf.i = IterationCap)
            /\ ~last => cf.page = cf.lastReq.page + 1 /\ cf.cursor = ""

C23_PageStep ==
    (cf.pc = "loop" /\ cf'.i = cf.i + 1 /\ cf.cursor = "") =>
        cf'.lastReq = [cursor |-> "", page |-> cf.page]

C23_Paging ==
    /\ [](C23_CursorState /\ C23_PageState)
    /\ [][C23_CursorStep /\ C23_PageStep]_vars

\* the part of C23 that holds: paging without cursors, and the first
\* request after a response that supplied a cursor
C23_PageMode ==
    /\ []C23_PageState
    /\ [][/\ C23_PageStep
          /\ (cf.pc = "loop" /\ cf'.i = cf.i + 1 /\ cf.i > 0 /\ cf.lastResp.info.after # "") =>
                 cf'.lastReq = [cursor |-> cf.lastResp.info.after, page |-> 0]]_vars

\* a request that carries cursor c1 again after the response to c1 came
\* back with an empty cursor and more pages announced
C23_WitnessStaleCursor ==
    /\ cf.i = 3
    /\ cf.lastReq = [cursor |-> "c1", page |-> 0]
    /\ cf.page = 2
    /\ cf.all > 0

\* what a resolution on its own stores for model string m: the closest
\* candidate of the first provider of the order whose catalog yields one
RECURSIVE SequentialSearch(_, _)
SequentialSearch(m, i) ==
    IF i > Len(ProviderOrder) THEN [actualModelName |-> Empty, providerName |-> Empty]
    ELSE IF Yields(ProviderOrder[i], m)
         THEN [actualModelName |-> ClosestModel(catalog[ProviderOrder[i]].models, m),
               providerName |-> ProviderOrder[i]]
         ELSE SequentialSearch(m, i + 1)

\* C24: under any interleaving of chat requests for the same uncached
\* model string, the cache holds for that string the value a resolution on
\* its own would store, no store ever changes it, and every request resolved
\* by search or from the cache has that pair.
C24_CacheValue ==
    /\ \A m \in DOMAIN knownModelsCache : knownModelsCache[m] = SequentialSearch(m, 1)
    /\ \A r \in Slots :
           req[r].via \in {"search", "cache"} =>
               /\ Pair(r) = SequentialSearch(req[r].model, 1)
               /\ req[r].model \in DOMAIN knownModelsCache

C24_ConcurrentSearch == []C24_CacheValue /\ [][C3_EntriesStay]_vars

\* two requests for the same model both went through the live search, the
\* second storing over the entry of the first
C24_Witness ==
    /\ req[1].model = req[2].model
    /\ req[1].via = "search"
    /\ req[2].via = "search"
    /\ ~req[1].cachedAtLoad
    /\ ~req[2].cachedAtLoad
    /\ req[1].fetchCalls = ProviderOrder
    /\ req[2].fetchCalls = ProviderOrder
    /\ Pair(1) = Pair(2)
    /\ knownModelsCache[req[1].model] = Pair(1)
    /\ req[1].actualModelName # req[1].model

\* provider p has its parsed base URL, the adapter of its style and a proxy
Populated(p) ==
    /\ pconf[p].proxy
    /\ pconf[p].Provider = AdapterFor(pconf[p].Style)
    /\ pconf[p] = Provisioned(p, pconf[p].APIBaseURL, pconf[p].Style)

\* C25: after provisioning has succeeded every provider of the registry is
\* fully populated: parsed base URL, adapter chosen by its style, bound
\* reverse proxy.
C25_AllPopulated ==
    prov.pc = "ok" => \A p \in Providers : Populated(p)

\* the part of C25 that holds: the providers named in the order
C25_OrderedPopulated ==
    prov.pc = "ok" =>
        \A i \in DOMAIN ProviderOrder : Populated(ProviderOrder[i])

\* provisioning succeeded with a registered provider that has no proxy
C25_WitnessUnpopulated ==
    /\ prov.pc = "ok"
    /\ Providers = PNames
    /\ ProviderOrder = <<pA>>
    /\ Populated(pA)
    /\ ~pconf[pB].proxy
    /\ pconf[pB].Provider = "nil"

\* the catalog fetch the search of request r made last has failed
LastFetchFailed(r) ==
    /\ req[r].fetchCalls # << >>
    /\ catalog[req[r].fetchCalls[Len(req[r].fetchCalls)]].err

\* C26: a catalog fetch that fails during the live search does not end the
\* chat request: the provider is passed over, nothing is cached for it, and
\* the search goes on with the next provider of the order.
C26_FetchFailureSkipped ==
    /\ \A m \in DOMAIN knownModelsCache : ~catalog[knownModelsCache[m].providerName].err
    /\ \A r \in Slots :
           /\ req[r].via = "search" => ~catalog[req[r].providerName].err
           /\ LastFetchFailed(r) =>
                 /\ req[r].via = "none"
                 /\ req[r].model \notin DOMAIN knownModelsCache
                 /\ req[r].pc \in {"search", "done"}
                 /\ req[r].pc = "search" => req[r].idx = Len(req[r].fetchCalls) + 1
                 /\ (req[r].pc = "done" /\ ~req[r].searchKeyFail) =>
                       /\ req[r].status = 400
                       /\ req[r].fetchCalls = req[r].toCheck

\* the first provider's catalog fails, the second one resolves the model
C26_Witness ==
    \E r \in Slots :
        /\ req[r].via = "search"
        /\ Len(req[r].fetchCalls) = 2
        /\ catalog[req[r].fetchCalls[1]].err
        /\ req[r].providerName = req[r].fetchCalls[2]
        /\ req[r].model \in DOMAIN knownModelsCache
        /\ knownModelsCache[req[r].model].providerName = req[r].fetchCalls[2]

\* the text of header value v holds the client's token
HoldsClientToken(v) == \E i \in DOMAIN v : v[i] = "c"

\* C27: the Authorization header of the client is not forwarded; the
\* credential the upstream receives is the key the credential provider
\* returned: as a bearer token in Authorization, or bare in x-api-key for
\* an Anthropic-style provider.
C27_UpstreamCredential ==
    Directed =>
        /\ ~HoldsClientToken(px.out.headers.Authorization)
        /\ ~HoldsClientToken(px.out.headers.xApiKey)
        /\ IF px.p.Provider = "AnthropicProvider"
           THEN /\ px.out.headers.Authorization = Empty
                /\ px.out.headers.xApiKey = px.apiKey
           ELSE /\ px.out.headers.Authorization = Bearer(px.apiKey)
                /\ px.out.headers.xApiKey = Empty

\* the part of C27 that holds: nothing of the client's header goes
\* upstream, and what goes upstream is made of the provider's key
C27_ClientAuthDropped ==
    Directed =>
        /\ ~HoldsClientToken(px.out.headers.Authorization)
        /\ ~HoldsClientToken(px.out.headers.xApiKey)
        /\ IF px.p.Provider = "AnthropicProvider"
           THEN /\ px.out.headers.Authorization = Empty
                /\ px.out.headers.xApiKey = Bearer(px.apiKey)
           ELSE /\ px.out.headers.Authorization = Bearer(px.apiKey)
                /\ px.out.headers.xApiKey = Empty

\* a client that sent its own bearer token, routed to an Anthropic-style
\* provider
C27_WitnessAnthropic ==
    /\ Directed
    /\ px.clientAuth = Bearer(<<"c">>)
    /\ px.p.Provider = "AnthropicProvider"
    /\ px.out.headers.xApiKey = Bearer(px.apiKey)

\* the well-formed, non-empty ids of provider p that contain model string m
WellFormedMatch(p, m) ==
    \E i \in DOMAIN catalog[p].models :
        /\ catalog[p].models[i] \notin {Empty, NonStringId}
        /\ Contains(catalog[p].models[i], m)

\* C28: a catalog entry whose id is missing, empty or not a string is
\* skipped by the live search: the request never crashes on it and the
\* other entries of the catalog are still considered.
C28_MalformedTolerated ==
    \A r \in Slots :
        /\ ~req[r].panic
        /\ \A k \in DOMAIN req[r].fetchCalls :
               WellFormedMatch(req[r].fetchCalls[k], req[r].model) =>
                   /\ req[r].via = "search"
                   /\ req[r].providerName = req[r].fetchCalls[k]

\* the part of C28 that holds: empty ids are passed over, and a request
\* crashes only on a catalog that has an id that is no string
C28_EmptyIdSkipped ==
    \A r \in Slots :
        /\ req[r].via = "search" => req[r].actualModelName \notin {Empty, NonStringId}
        /\ req[r].panic =>
              /\ req[r].fetchCalls # << >>
              /\ HasNonStringId(catalog[req[r].fetchCalls[Len(req[r].fetchCalls)]].models)
        /\ \A k \in DOMAIN req[r].fetchCalls :
               (/\ WellFormedMatch(req[r].fetchCalls[k], req[r].model)
                /\ ~HasNonStringId(catalog[req[r].fetchCalls[k]].models)) =>
                   /\ req[r].via = "search"
                   /\ req[r].providerName = req[r].fetchCalls[k]

\* the request crashed on a catalog whose next entry matches the model
C28_WitnessCrash ==
    \E r \in Slots :
        /\ req[r].pc = "done"
        /\ req[r].panic
        /\ req[r].status = 0
        /\ req[r].model = <<"A">>
        /\ catalog[req[r].fetchCalls[1]].models = << NonStringId, <<"A">> >>

\* an empty id ahead of the matching entry was passed over
C28_WitnessEmptySkipped ==
    \E r \in Slots :
        /\ req[r].via = "search"
        /\ catalog[req[r].providerName].models = << Empty, <<"A">> >>
        /\ req[r].actualModelName = <<"A">>

\* the tasks of the running call that have not sent their result yet
Pending == {providerConfigs[i] : i \in DOMAIN providerConfigs} \ posted

\* C29: every per-provider task of GET /models sends exactly one result,
\* on each of its paths, and finds room for it in the channel; a running
\* call therefore always comes to write its response, with no task left.
C29_OneResultEach ==
    /\ Len(resultsChan) = Cardinality(posted)
    /\ Len(resultsChan) <= Len(providerConfigs)
    /\ mpc = "running" => \A p \in Pending : ENABLED ModelsTask(p)
    /\ (mpc = "running" /\ Pending = {}) => ENABLED ModelsRespond
    /\ (mpc = "done" /\ providerConfigs # << >>) =>
          /\ Pending = {}
          /\ Len(resultsChan) = Len(providerConfigs)
          /\ response.status = 200

C29_AlwaysResponds ==
    /\ []C29_OneResultEach
    /\ (mpc = "running") ~> (mpc = "done")

\* a call over two providers, one of them without adapter and one whose
\* catalog fetch failed: both results are in, the response is written
C29_Witness ==
    /\ mpc = "done"
    /\ Len(providerConfigs) = 2
    /\ Len(resultsChan) = 2
    /\ \E p \in Providers : pconf[p].Provider = "nil"
    /\ \E p \in Providers : pconf[p].Provider # "nil" /\ catalog[p].err
    /\ \A j \in DOMAIN resultsChan : resultsChan[j].err
    /\ response = [status |-> 200, data |-> << >>]

\* a document with a string "response", at top level or under "result"
HasResponseText(doc) == doc \in {"{response:A}", "{result:{response:A}}"}

\* a Cloudflare JSON response went through the body transform
CloudflareJSONMutated ==
    /\ Mutated
    /\ px.p.Provider = "CloudflareProvider"
    /\ px.upstream.contentType = "application/json"
    /\ ValidJSON(px.upstream.body)

\* C30: the Cloudflare response transform returns a body without response
\* text, in either supported shape, as it came, and produces a unified
\* single-choice body only when a response text is present.
C30_NoTextUnchanged ==
    (CloudflareJSONMutated /\ ~HasResponseText(px.upstream.body[1])) =>
        px.resp.body = px.upstream.body

\* the part of C30 the code does keep: an object under "result" without a
\* string "response" leaves the body as it came, and a response text of
\* either shape gives the unified body
C30_WrappedWithoutText ==
    CloudflareJSONMutated =>
        /\ px.upstream.body = <<"{result:{}}">> => px.resp.body = px.upstream.body
        /\ HasResponseText(px.upstream.body[1]) =>
              px.resp.body = <<"{choices:[{content:A}]}">>

\* the body {} came back as a single choice with empty content
C30_WitnessEmptyChoice ==
    /\ CloudflareJSONMutated
    /\ px.upstream.body = <<"{}">>
    /\ px.resp.body = <<"{choices:[{content:}]}">>
    /\ ~px.resp.closed
====
